---- MODULE Spec2Model ----
(***************************************************************************)
(* Engine.ini configuration manager of Clair Obscur: Expedition 33.        *)
(*                                                                         *)
(* The module models ClairObscurConfig (src/core/backend.py, duplicated in *)
(* src/main.py), the command line of src/main.py and the two front ends    *)
(* (ClairConfigTUI in src/main.py, ClairConfigFlet in                      *)
(* src/core/frontend.py).                                                  *)
(*                                                                         *)
(* A file is a sequence of lines with permission bits; ConfigParser.read   *)
(* and ConfigParser.write are modelled as a parser and a printer over      *)
(* those lines, a Python dict as a sequence of [k, v] items with unique    *)
(* keys (insertion order kept).  A method takes a world w = [fs,           *)
(* toml_config, exc, ret, log]; a raised exception sits in w.exc and makes *)
(* every later call of the same handler a no-op, as an exception leaving   *)
(* the handler does.                                                       *)
(***************************************************************************)
EXTENDS Integers, Sequences, FiniteSets, TLC

VARIABLES
    toml_config,   \* self.toml_config: [presets, engine_tweaks]
    fs,            \* the config directory: path -> [lines, mode]
    controls,      \* the front end's controls: label -> value
    frontend,      \* "none" | "tui" | "gui"
    hist,          \* the last operation: its input, the state before, its outcome
    steps,         \* operations performed so far
    conv           \* a value on its way through the value mapper

vars == <<toml_config, fs, controls, frontend, hist, steps, conv>>

(***************************************************************************)
(* Bounds of the model.                                                    *)
(***************************************************************************)
MaxOps == 2

(***************************************************************************)
(* Python dicts: sequences of items [k |-> key, v |-> value].              *)
(***************************************************************************)
Item(k, v) == [k |-> k, v |-> v]

Keys(d) == {d[i].k : i \in 1..Len(d)}

Has(d, k) == \E i \in 1..Len(d) : d[i].k = k

Get(d, k) == d[CHOOSE i \in 1..Len(d) : d[i].k = k].v

\* d[k] = v: an existing key keeps its position, a new key is appended.
Put(d, k, v) ==
    IF Has(d, k)
    THEN [i \in 1..Len(d) |-> IF d[i].k = k THEN Item(k, v) ELSE d[i]]
    ELSE Append(d, Item(k, v))

\* d.get(k, default)
GetOr(d, k, default) == IF Has(d, k) THEN Get(d, k) ELSE default

(***************************************************************************)
(* Values of the TOML catalog are typed; str() renders them.               *)
(***************************************************************************)
TStr(s) == [ty |-> "str", n |-> 0, b |-> FALSE, s |-> s]
TInt(n) == [ty |-> "int", n |-> n, b |-> FALSE, s |-> ""]
TBool(b) == [ty |-> "bool", n |-> 0, b |-> b, s |-> ""]

str(value) ==
    CASE value.ty = "str" -> value.s
      [] value.ty = "int" -> ToString(value.n)
      [] value.ty = "bool" -> IF value.b THEN "True" ELSE "False"

(***************************************************************************)
(* Bit operations on non-negative integers.                                *)
(***************************************************************************)
RECURSIVE BitAnd(_, _)
BitAnd(a, b) ==
    IF a = 0 \/ b = 0 THEN 0
    ELSE (a % 2) * (b % 2) + 2 * BitAnd(a \div 2, b \div 2)

\* a | b
BitOr(a, b) == a + b - BitAnd(a, b)

\* a & ~b
BitAndNot(a, b) == a - BitAnd(a, b)

S_IWUSR == 128      \* 0o200
S_IRUSR == 256      \* 0o400
S_IFREG == 32768    \* 0o100000
S_IMODE == 4095     \* 0o7777
CreateMode == 420   \* 0o666 & ~umask, umask 0o022

(***************************************************************************)
(* Paths and files.                                                        *)
(***************************************************************************)
\* self.engine_ini_path = self.config_path / "Engine.ini", as <<stem, suffix>>
engine_ini_path == <<"Engine", ".ini">>

\* Path.with_suffix
with_suffix(path, suffix) == <<path[1], suffix>>

exists(f, path) == path \in DOMAIN f

File(lines, mode) == [lines |-> lines, mode |-> mode]

Readable(f, path) == BitAnd(f[path].mode, S_IRUSR) # 0
Writable(f, path) == BitAnd(f[path].mode, S_IWUSR) # 0

\* f with path holding file
WithFile(f, path, file) ==
    [p \in DOMAIN f \cup {path} |-> IF p = path THEN file ELSE f[p]]

\* Lines of a file
SecLine(name) == [t |-> "section", k |-> name, v |-> ""]
OptLine(key, val) == [t |-> "option", k |-> key, v |-> val]
Ignored(text) == [t |-> "ignored", k |-> text, v |-> ""]
BadLine(text) == [t |-> "bad", k |-> text, v |-> ""]

(***************************************************************************)
(* The world a method runs in.                                             *)
(***************************************************************************)
World(f, cfg) ==
    [fs |-> f, toml_config |-> cfg, exc |-> "None", ret |-> <<>>, log |-> <<>>]

Raised(w) == w.exc # "None"

Raise(w, e) == [w EXCEPT !.exc = e]

(***************************************************************************)
(* configparser.ConfigParser with optionxform = str.                       *)
(***************************************************************************)
\* str.lower() on the keys of the model that hold capital letters
lower(key) ==
    CASE key = "r.BloomQuality" -> "r.bloomquality"
      [] key = "r.MaxAnisotropy" -> "r.maxanisotropy"
      [] key = "r.Fog" -> "r.fog"
      [] key = "r.Streaming.PoolSize" -> "r.streaming.poolsize"
      [] key = "r.DefaultFeature.Bloom" -> "r.defaultfeature.bloom"
      [] key = "r.GenerateMeshDistanceFields" -> "r.generatemeshdistancefields"
      [] OTHER -> key

\* The optionxform a ConfigParser has when none is set: keys in lower case
optionxform_lower(key) == lower(key)

\* config.optionxform = str: keys keep their case
optionxform(key) == key

\* Values BasicInterpolation.before_set rejects: a "%" that is neither "%%"
\* nor the start of "%(name)s".
BarePercent == {"50%"}

\* config[section] = {}
setsection(c, section) == [c EXCEPT !.config = Put(c.config, section, <<>>)]

\* config[section][key] = value
setitem(c, section, key, value) ==
    IF value \in BarePercent THEN [c EXCEPT !.exc = "ValueError"]
    ELSE [c EXCEPT !.config =
             Put(c.config, section,
                 Put(Get(c.config, section), optionxform(key), value))]

\* ConfigParser._read over the lines of a file, strict: cur is the index of
\* the current section in c.config, 0 before the first header.  A line that is
\* no option is remembered and raised as ParsingError at the end.
RECURSIVE _read(_, _, _, _)
_read(c, lines, i, cur) ==
    IF c.exc # "None" THEN c
    ELSE IF i > Len(lines)
    THEN (IF c.pending THEN [c EXCEPT !.exc = "ParsingError"] ELSE c)
    ELSE LET l == lines[i] IN
         CASE l.t = "ignored" -> _read(c, lines, i + 1, cur)
           [] l.t = "section" ->
                IF Has(c.config, l.k)
                THEN [c EXCEPT !.exc = "DuplicateSectionError"]
                ELSE _read([c EXCEPT !.config = Append(c.config, Item(l.k, <<>>))],
                           lines, i + 1, Len(c.config) + 1)
           [] l.t = "bad" ->
                IF cur = 0
                THEN [c EXCEPT !.exc = "MissingSectionHeaderError"]
                ELSE _read([c EXCEPT !.pending = TRUE], lines, i + 1, cur)
           [] l.t = "option" ->
                IF cur = 0
                THEN [c EXCEPT !.exc = "MissingSectionHeaderError"]
                ELSE IF Has(c.config[cur].v, optionxform(l.k))
                THEN [c EXCEPT !.exc = "DuplicateOptionError"]
                ELSE _read([c EXCEPT !.config[cur].v =
                               Append(@, Item(optionxform(l.k), l.v))],
                           lines, i + 1, cur)

NewParser == [config |-> <<>>, exc |-> "None", pending |-> FALSE]

\* config.read(path): a file that cannot be opened is skipped silently.
read(c, f, path) ==
    IF ~exists(f, path) \/ ~Readable(f, path) THEN c
    ELSE _read(c, f[path].lines, 1, 0)

RECURSIVE _write_section(_, _)
_write_section(opts, i) ==
    IF i > Len(opts) THEN <<Ignored("")>>
    ELSE <<OptLine(opts[i].k, opts[i].v)>> \o _write_section(opts, i + 1)

\* config.write(f): each section's header, its "key = value" lines, a blank line
RECURSIVE write(_, _)
write(config, i) ==
    IF i > Len(config) THEN <<>>
    ELSE <<SecLine(config[i].k)>> \o _write_section(config[i].v, 1)
         \o write(config, i + 1)

(***************************************************************************)
(* File system calls.                                                      *)
(***************************************************************************)
\* What a write of the target finds: the target and the backup at that moment.
WriteEvent(f, path) ==
    [existed |-> exists(f, path),
     target |-> IF exists(f, path) THEN f[path].lines ELSE <<>>,
     backup_exists |-> exists(f, with_suffix(path, ".ini.backup")),
     backup |-> IF exists(f, with_suffix(path, ".ini.backup"))
                THEN f[with_suffix(path, ".ini.backup")].lines ELSE <<>>]

\* with open(path, 'w') as f: config.write(f)
open_w_write(w, path, config) ==
    IF exists(w.fs, path) /\ ~Writable(w.fs, path) THEN Raise(w, "PermissionError")
    ELSE [w EXCEPT
            !.fs = WithFile(w.fs, path,
                       File(write(config, 1),
                            IF exists(w.fs, path) THEN w.fs[path].mode
                            ELSE CreateMode)),
            !.log = Append(w.log, WriteEvent(w.fs, path))]

\* shutil.copy2(src, dst): copyfile, then copystat (the permission bits)
copy2(w, src, dst) ==
    IF ~Readable(w.fs, src) THEN Raise(w, "PermissionError")
    ELSE IF exists(w.fs, dst) /\ ~Writable(w.fs, dst) THEN Raise(w, "PermissionError")
    ELSE [w EXCEPT !.fs = WithFile(w.fs, dst, w.fs[src])]

\* path.stat().st_mode
st_mode(f, path) == BitOr(S_IFREG, f[path].mode)

\* path.chmod(mode)
chmod(w, path, mode) ==
    [w EXCEPT !.fs = WithFile(w.fs, path,
                         File(w.fs[path].lines, BitAnd(mode, S_IMODE)))]

(***************************************************************************)
(* ClairObscurConfig                                                       *)
(***************************************************************************)
\* get_performance_preset falling back to the first preset of the catalog
get_performance_preset_first(cfg, preset) ==
    GetOr(cfg.presets, preset, cfg.presets[1].v)

get_performance_preset(cfg, preset) ==
    GetOr(cfg.presets, preset, Get(cfg.presets, "balanced"))

get_engine_tweaks(cfg) == cfg.engine_tweaks

\* backup_existing_config that keeps a backup that is already there
backup_existing_config_once(w) ==
    IF Raised(w) THEN w
    ELSE IF exists(w.fs, engine_ini_path)
    THEN LET backup_path == with_suffix(engine_ini_path, ".ini.backup")
             w1 == IF exists(w.fs, backup_path) THEN w
                   ELSE copy2(w, engine_ini_path, backup_path)
         IN  IF Raised(w1) THEN w1 ELSE [w1 EXCEPT !.ret = backup_path]
    ELSE [w EXCEPT !.ret = <<>>]

backup_existing_config(w) ==
    IF Raised(w) THEN w
    ELSE IF exists(w.fs, engine_ini_path)
    THEN LET backup_path == with_suffix(engine_ini_path, ".ini.backup")
             w1 == copy2(w, engine_ini_path, backup_path)
         IN  IF Raised(w1) THEN w1 ELSE [w1 EXCEPT !.ret = backup_path]
    ELSE [w EXCEPT !.ret = <<>>]

\* for key, value in settings.items(): config[section][key] = str(value)
RECURSIVE set_options(_, _, _, _)
set_options(c, section, settings, i) ==
    IF c.exc # "None" \/ i > Len(settings) THEN c
    ELSE set_options(setitem(c, section, settings[i].k, str(settings[i].v)),
                     section, settings, i + 1)

\* The preset loop of create_engine_ini: config[section] = {} for every section
RECURSIVE add_preset(_, _, _)
add_preset(c, preset_config, i) ==
    IF c.exc # "None" \/ i > Len(preset_config) THEN c
    ELSE add_preset(set_options(setsection(c, preset_config[i].k),
                                preset_config[i].k, preset_config[i].v, 1),
                    preset_config, i + 1)

\* apply_settings with config[section] = {} for every section, as the preset
\* loop does: the earlier keys of a section are dropped.
RECURSIVE apply_settings_clear(_, _, _)
apply_settings_clear(c, custom_settings, i) ==
    IF c.exc # "None" \/ i > Len(custom_settings) THEN c
    ELSE LET section == custom_settings[i].k
         IN  apply_settings_clear(
                 set_options(setsection(c, section), section,
                             custom_settings[i].v, 1),
                 custom_settings, i + 1)

\* The loop of apply_custom_settings, and the tweak loop of create_engine_ini:
\* the section is created only when it is not in config
RECURSIVE apply_settings(_, _, _)
apply_settings(c, custom_settings, i) ==
    IF c.exc # "None" \/ i > Len(custom_settings) THEN c
    ELSE LET section == custom_settings[i].k
             c1 == IF ~Has(c.config, section) THEN setsection(c, section) ELSE c
         IN  apply_settings(set_options(c1, section, custom_settings[i].v, 1),
                            custom_settings, i + 1)

\* create_engine_ini starting from the existing file, as apply_custom_settings does
create_engine_ini_keep(w, preset, include_tweaks) ==
    IF Raised(w) THEN w
    ELSE LET c0 == read(NewParser, w.fs, engine_ini_path)
             c1 == apply_settings(c0,
                       get_performance_preset(w.toml_config, preset), 1)
             c2 == IF include_tweaks
                   THEN apply_settings(c1, get_engine_tweaks(w.toml_config), 1)
                   ELSE c1
         IN  IF c2.exc # "None" THEN Raise(w, c2.exc)
             ELSE [open_w_write(w, engine_ini_path, c2.config) EXCEPT !.ret = <<>>]

create_engine_ini(w, preset, include_tweaks) ==
    IF Raised(w) THEN w
    ELSE LET c1 == add_preset(NewParser,
                              get_performance_preset(w.toml_config, preset), 1)
             c2 == IF include_tweaks
                   THEN apply_settings(c1, get_engine_tweaks(w.toml_config), 1)
                   ELSE c1
         IN  IF c2.exc # "None" THEN Raise(w, c2.exc)
             ELSE [open_w_write(w, engine_ini_path, c2.config) EXCEPT !.ret = <<>>]

\* apply_custom_settings starting from the empty document when the existing
\* file does not parse
apply_custom_settings_lenient(w, custom_settings) ==
    IF Raised(w) THEN w
    ELSE LET c0 == IF exists(w.fs, engine_ini_path)
                   THEN read(NewParser, w.fs, engine_ini_path)
                   ELSE NewParser
             c1 == IF c0.exc # "None" THEN NewParser ELSE c0
             c2 == apply_settings(c1, custom_settings, 1)
         IN  IF c2.exc # "None" THEN Raise(w, c2.exc)
             ELSE [open_w_write(w, engine_ini_path, c2.config) EXCEPT !.ret = <<>>]

\* apply_custom_settings without the read of the existing file
apply_custom_settings_fresh(w, custom_settings) ==
    IF Raised(w) THEN w
    ELSE LET c2 == apply_settings(NewParser, custom_settings, 1)
         IN  IF c2.exc # "None" THEN Raise(w, c2.exc)
             ELSE [open_w_write(w, engine_ini_path, c2.config) EXCEPT !.ret = <<>>]

apply_custom_settings(w, custom_settings) ==
    IF Raised(w) THEN w
    ELSE LET c1 == IF exists(w.fs, engine_ini_path)
                   THEN read(NewParser, w.fs, engine_ini_path)
                   ELSE NewParser
             c2 == apply_settings(c1, custom_settings, 1)
         IN  IF c2.exc # "None" THEN Raise(w, c2.exc)
             ELSE [open_w_write(w, engine_ini_path, c2.config) EXCEPT !.ret = <<>>]

\* set_read_only changing the bit of the backup file as well
set_read_only_backup(w, read_only) ==
    IF Raised(w) THEN w
    ELSE IF exists(w.fs, engine_ini_path)
    THEN LET backup_path == with_suffix(engine_ini_path, ".ini.backup")
             current_stat == st_mode(w.fs, engine_ini_path)
             mode == IF read_only THEN BitAndNot(current_stat, S_IWUSR)
                     ELSE BitOr(current_stat, S_IWUSR)
             w1 == chmod(w, engine_ini_path, mode)
         IN  IF exists(w.fs, backup_path)
             THEN [chmod(w1, backup_path, mode) EXCEPT !.ret = <<>>]
             ELSE [w1 EXCEPT !.ret = <<>>]
    ELSE [w EXCEPT !.ret = <<>>]

\* set_read_only taking the else branch whatever the flag
set_read_only_never(w, read_only) ==
    IF Raised(w) THEN w
    ELSE IF exists(w.fs, engine_ini_path)
    THEN LET current_stat == st_mode(w.fs, engine_ini_path)
         IN  [chmod(w, engine_ini_path, BitOr(current_stat, S_IWUSR))
                EXCEPT !.ret = <<>>]
    ELSE [w EXCEPT !.ret = <<>>]

\* set_read_only toggling the write bits of owner, group and others (0o222)
set_read_only_all(w, read_only) ==
    IF Raised(w) THEN w
    ELSE IF exists(w.fs, engine_ini_path)
    THEN LET current_stat == st_mode(w.fs, engine_ini_path)
         IN  IF read_only
             THEN [chmod(w, engine_ini_path, BitAndNot(current_stat, 146))
                     EXCEPT !.ret = <<>>]
             ELSE [chmod(w, engine_ini_path, BitOr(current_stat, 146))
                     EXCEPT !.ret = <<>>]
    ELSE [w EXCEPT !.ret = <<>>]

\* set_read_only setting fixed permission bits, 0o444 or 0o644
set_read_only_fixed(w, read_only) ==
    IF Raised(w) THEN w
    ELSE IF exists(w.fs, engine_ini_path)
    THEN [chmod(w, engine_ini_path, IF read_only THEN 292 ELSE 420)
            EXCEPT !.ret = <<>>]
    ELSE [w EXCEPT !.ret = <<>>]

set_read_only(w, read_only) ==
    IF Raised(w) THEN w
    ELSE IF exists(w.fs, engine_ini_path)
    THEN LET current_stat == st_mode(w.fs, engine_ini_path)
         IN  IF read_only
             THEN [chmod(w, engine_ini_path, BitAndNot(current_stat, S_IWUSR))
                     EXCEPT !.ret = <<>>]
             ELSE [chmod(w, engine_ini_path, BitOr(current_stat, S_IWUSR))
                     EXCEPT !.ret = <<>>]
    ELSE [w EXCEPT !.ret = <<>>]

\* read_config opening the target without the test that it exists
read_config_strict(w) ==
    IF Raised(w) THEN w
    ELSE IF ~exists(w.fs, engine_ini_path) THEN Raise(w, "FileNotFoundError")
    ELSE LET c == read(NewParser, w.fs, engine_ini_path)
         IN  IF c.exc # "None" THEN Raise(w, c.exc) ELSE [w EXCEPT !.ret = c.config]

read_config(w) ==
    IF Raised(w) THEN w
    ELSE LET c == IF exists(w.fs, engine_ini_path)
                  THEN read(NewParser, w.fs, engine_ini_path)
                  ELSE NewParser
         IN  IF c.exc # "None" THEN Raise(w, c.exc) ELSE [w EXCEPT !.ret = c.config]

\* Prints the sections and options read, or that the file does not exist;
\* ret is what is printed.
show_current_config(w) ==
    IF Raised(w) THEN w
    ELSE IF ~exists(w.fs, engine_ini_path)
    THEN [w EXCEPT !.ret = <<Item("Engine.ini does not exist", <<>>)>>]
    ELSE LET c == read(NewParser, w.fs, engine_ini_path)
         IN  IF c.exc # "None" THEN Raise(w, c.exc) ELSE [w EXCEPT !.ret = c.config]

(***************************************************************************)
(* The catalog (config.toml) and the inputs of the operations.             *)
(***************************************************************************)
Presets ==
    <<Item("low",
           <<Item("SystemSettings",
                  <<Item("r.MaxAnisotropy", TInt(0)),
                    Item("r.BloomQuality", TInt(1))>>)>>),
      Item("balanced",
           <<Item("SystemSettings",
                  <<Item("r.MaxAnisotropy", TInt(8)),
                    Item("r.BloomQuality", TInt(3)),
                    Item("r.Fog", TStr("True"))>>)>>),
      Item("ultra",
           <<Item("SystemSettings",
                  <<Item("r.MaxAnisotropy", TInt(16)),
                    Item("r.BloomQuality", TInt(5))>>),
             Item("/Script/Engine.RendererSettings",
                  <<Item("r.DefaultFeature.Bloom", TBool(TRUE))>>)>>)>>

\* Two [engine_tweaks] tables: one sharing a (section, key) with the presets
\* and the controls of the front ends, one sharing none.
TweakChoices ==
    {<<Item("SystemSettings",
            <<Item("r.BloomQuality", TInt(2)),
              Item("r.Streaming.PoolSize", TInt(4096))>>)>>,
     <<Item("/Script/Engine.RendererSettings",
            <<Item("r.GenerateMeshDistanceFields", TBool(TRUE))>>)>>}

Catalogs == {[presets |-> Presets, engine_tweaks |-> t] : t \in TweakChoices}

\* Names get_performance_preset and create_engine_ini are called with
PresetNames == {"low", "balanced", "ultra", "nonexistent_name"}

\* Documents apply_custom_settings is called with
Overlays ==
    {<<Item("Y", <<Item("b", TStr("2"))>>)>>,
     <<Item("SystemSettings",
            <<Item("r.BloomQuality", TStr("4")), Item("m", TStr("3"))>>)>>,
     <<Item("X", <<Item("a", TStr("50%"))>>)>>,
     <<Item("SystemSettings", <<Item("r.bloomquality", TStr("0"))>>)>>,
     <<Item("X", <<>>),
       Item("SystemSettings", <<Item("r.Fog", TStr("False"))>>)>>}

\* Contents the target file may have before the program runs
InitLines ==
    {<<>>,
     <<Ignored("; edited by hand"), SecLine("X"), OptLine("a", "1")>>,
     <<SecLine("SystemSettings"), OptLine("r.BloomQuality", "1"),
       OptLine("r.Fog", "True"), Ignored(""),
       SecLine("X"), OptLine("a", "50%"), Ignored("")>>,
     <<SecLine("X"), OptLine("a", "1"), BadLine("garbage")>>}

\* Permission bits the target may have: 0o644, 0o444, 0o755
InitModes == {420, 292, 493}

NoFiles == [p \in {} |-> File(<<>>, 0)]

InitFs ==
    LET targets == {NoFiles} \cup
                   {WithFile(NoFiles, engine_ini_path, File(l, m)) :
                        l \in InitLines, m \in InitModes}
    IN  targets \cup
        {WithFile(f, with_suffix(engine_ini_path, ".ini.backup"),
                  File(<<SecLine("Old"), OptLine("o", "0")>>, 420)) : f \in targets}

NoArgs ==
    [custom_settings |-> <<>>, preset |-> "", include_tweaks |-> FALSE,
     read_only |-> FALSE]

\* What is remembered of the operation before the last one
Prev(h) == [op |-> h.op, args |-> h.args, pre |-> h.pre, exc |-> h.exc]

Hist(op, args, pre, w, prev) ==
    [op |-> op, args |-> args, pre |-> pre, exc |-> w.exc, ret |-> w.ret,
     log |-> w.log, prev |-> prev]

NoControls == [l \in {} |-> ""]

NoConv ==
    [stage |-> "none", label |-> "", value |-> "", engine |-> "", back |-> "",
     exc |-> "None"]

Init ==
    /\ toml_config \in Catalogs
    /\ fs \in InitFs
    /\ controls = NoControls
    /\ frontend = "none"
    /\ hist = Hist("init", NoArgs, fs, World(fs, toml_config),
                   [op |-> "init", args |-> NoArgs, pre |-> fs, exc |-> "None"])
    /\ steps = 0
    /\ conv = NoConv

(***************************************************************************)
(* The operations of ClairObscurConfig, one call each.                     *)
(***************************************************************************)
\* The effect of one call that ends in world w
Done(op, args, w) ==
    /\ steps < MaxOps
    /\ steps' = steps + 1
    /\ fs' = w.fs
    /\ toml_config' = w.toml_config
    /\ hist' = Hist(op, args, fs, w, Prev(hist))
    /\ UNCHANGED <<controls, frontend, conv>>

Now == World(fs, toml_config)

GetPerformancePreset ==
    \E preset \in PresetNames :
        Done("get_performance_preset", [NoArgs EXCEPT !.preset = preset],
             [Now EXCEPT !.ret = get_performance_preset(toml_config, preset)])

GetEngineTweaks ==
    Done("get_engine_tweaks", NoArgs,
         [Now EXCEPT !.ret = get_engine_tweaks(toml_config)])

BackupExistingConfig ==
    Done("backup_existing_config", NoArgs, backup_existing_config(Now))

CreateEngineIni ==
    \E preset \in PresetNames, include_tweaks \in BOOLEAN :
        Done("create_engine_ini",
             [NoArgs EXCEPT !.preset = preset, !.include_tweaks = include_tweaks],
             create_engine_ini(Now, preset, include_tweaks))

ApplyCustomSettings ==
    \E custom_settings \in Overlays \cup {get_engine_tweaks(toml_config)} :
        Done("apply_custom_settings",
             [NoArgs EXCEPT !.custom_settings = custom_settings],
             apply_custom_settings(Now, custom_settings))

SetReadOnly ==
    \E read_only \in BOOLEAN :
        Done("set_read_only", [NoArgs EXCEPT !.read_only = read_only],
             set_read_only(Now, read_only))

ReadConfig == Done("read_config", NoArgs, read_config(Now))

ShowCurrentConfig == Done("show_current_config", NoArgs, show_current_config(Now))

Next ==
    \/ GetPerformancePreset
    \/ GetEngineTweaks
    \/ BackupExistingConfig
    \/ CreateEngineIni
    \/ ApplyCustomSettings
    \/ SetReadOnly
    \/ ReadConfig
    \/ ShowCurrentConfig

Spec == Init /\ [][Next]_vars

(***************************************************************************)
(* The front ends: ClairConfigTUI (src/main.py) and ClairConfigFlet        *)
(* (src/core/frontend.py).  A control is [control_type, options, value,    *)
(* on]: value is the text of a dropdown or an input (a slider's float as   *)
(* str() prints it), on is the state of a switch.                          *)
(***************************************************************************)
Ctl(control_type, options, value, on) ==
    [control_type |-> control_type, options |-> options, value |-> value,
     on |-> on]

quality_options == <<"Disabled", "Low", "Medium", "High", "Very High", "Ultra">>

aniso_options == <<"Disabled", "2x", "4x", "8x", "16x">>

shadow_options == <<"Low", "Medium", "High", "Ultra">>

\* The ConfigOption widgets of the TUI in the order self.query finds them
TUI_options ==
    <<Item("Resolution",
           Ctl("select", <<"1920x1080", "2560x1440", "3840x2160", "4096x4096">>,
               "4096x4096", FALSE)),
      Item("Anisotropic Filtering", Ctl("select", aniso_options, "16x", FALSE)),
      Item("Depth of Field", Ctl("select", quality_options, "Very High", FALSE)),
      Item("Bloom", Ctl("select", quality_options, "Very High", FALSE)),
      Item("Motion Blur", Ctl("select", quality_options, "Very High", FALSE)),
      Item("Lens Flares", Ctl("select", quality_options, "High", FALSE)),
      Item("Fog", Ctl("switch", <<>>, "", TRUE)),
      Item("Volumetric Fog", Ctl("switch", <<>>, "", TRUE)),
      Item("Chromatic Aberration", Ctl("switch", <<>>, "", TRUE)),
      Item("Disable Distortion Effects", Ctl("switch", <<>>, "", FALSE)),
      Item("Include Engine Tweaks", Ctl("switch", <<>>, "", TRUE)),
      Item("Set Config Read-Only", Ctl("switch", <<>>, "", FALSE)),
      Item("Film Grain", Ctl("switch", <<>>, "", TRUE)),
      Item("Shadow Quality", Ctl("select", shadow_options, "Ultra", FALSE)),
      Item("Shadow Resolution", Ctl("input", <<>>, "4096x4096", FALSE)),
      Item("Tonemapper Quality", Ctl("input", <<>>, "5", FALSE)),
      Item("Grain Quantization", Ctl("switch", <<>>, "", FALSE)),
      Item("Sharpening Strength", Ctl("input", <<>>, "1.0", FALSE)),
      Item("View Distance", Ctl("input", <<>>, "2.75", FALSE)),
      Item("Shadow Distance", Ctl("input", <<>>, "2.75", FALSE)),
      Item("Foliage Distance", Ctl("input", <<>>, "2.50", FALSE))>>

\* self.config_controls of the GUI as build_graphics_section and
\* build_advanced_section fill it
Flet_config_controls ==
    <<Item("Anisotropic Filtering", Ctl("dropdown", aniso_options, "Enabled", FALSE)),
      Item("Depth of Field", Ctl("dropdown", quality_options, "Ultra", FALSE)),
      Item("Bloom", Ctl("dropdown", quality_options, "Very High", FALSE)),
      Item("Motion Blur", Ctl("dropdown", quality_options, "High", FALSE)),
      Item("Lens Flares", Ctl("dropdown", quality_options, "High", FALSE)),
      Item("Shadow Quality", Ctl("dropdown", shadow_options, "Ultra", FALSE)),
      Item("Shadow Resolution",
           Ctl("dropdown", <<"4096x4096", "2048x2048", "1024x1024">>,
               "4096x4096", FALSE)),
      Item("Film Grain", Ctl("dropdown", <<"Disabled", "Enabled">>, "Enabled", FALSE)),
      Item("Sharpening Strength", Ctl("slider", <<>>, "1.0", FALSE)),
      Item("View Distance", Ctl("slider", <<>>, "2.75", FALSE)),
      Item("Shadow Distance", Ctl("slider", <<>>, "2.75", FALSE)),
      Item("Foliage Distance", Ctl("slider", <<>>, "2.5", FALSE)),
      Item("Fog", Ctl("switch", <<>>, "", TRUE)),
      Item("Volumetric Fog", Ctl("switch", <<>>, "", TRUE)),
      Item("Chromatic Aberration", Ctl("switch", <<>>, "", TRUE)),
      Item("Include Engine Tweaks", Ctl("switch", <<>>, "", TRUE)),
      Item("Set Config Read-Only", Ctl("switch", <<>>, "", FALSE))>>

\* The controls of a front end as a function of their labels
ControlsOf(options) == [l \in Keys(options) |-> Get(options, l)]

TUI_config_map ==
    <<Item("Resolution", <<"SystemSettings", "r.ScreenPercentage">>),
      Item("Anisotropic Filtering", <<"SystemSettings", "r.MaxAnisotropy">>),
      Item("Depth of Field", <<"SystemSettings", "r.DepthOfFieldQuality">>),
      Item("Bloom", <<"SystemSettings", "r.BloomQuality">>),
      Item("Motion Blur", <<"SystemSettings", "r.MotionBlurQuality">>),
      Item("Lens Flares", <<"SystemSettings", "r.LensFlareQuality">>),
      Item("Fog", <<"SystemSettings", "r.Fog">>),
      Item("Volumetric Fog", <<"SystemSettings", "r.VolumetricFog">>),
      Item("Chromatic Aberration", <<"SystemSettings", "r.SceneColorFringeQuality">>),
      Item("Disable Distortion Effects", <<"SystemSettings", "r.DistortionEffects">>),
      Item("Film Grain", <<"SystemSettings", "r.FilmGrain">>),
      Item("Shadow Quality", <<"SystemSettings", "r.ShadowQuality">>),
      Item("Shadow Resolution", <<"SystemSettings", "r.Shadow.MaxResolution">>),
      Item("Tonemapper Quality", <<"SystemSettings", "r.Tonemapper.Quality">>),
      Item("Grain Quantization", <<"SystemSettings", "r.Tonemapper.GrainQuantization">>),
      Item("Sharpening Strength", <<"SystemSettings", "r.Tonemapper.Sharpen">>),
      Item("View Distance", <<"SystemSettings", "r.ViewDistanceScale">>),
      Item("Shadow Distance", <<"SystemSettings", "r.Shadow.DistanceScale">>),
      Item("Foliage Distance", <<"SystemSettings", "r.Foliage.LODDistanceScale">>)>>

Flet_config_map ==
    <<Item("Anisotropic Filtering", <<"SystemSettings", "r.MaxAnisotropy">>),
      Item("Depth of Field", <<"SystemSettings", "r.DepthOfFieldQuality">>),
      Item("Bloom", <<"SystemSettings", "r.BloomQuality">>),
      Item("Motion Blur", <<"SystemSettings", "r.MotionBlurQuality">>),
      Item("Lens Flares", <<"SystemSettings", "r.LensFlareQuality">>),
      Item("Shadow Quality", <<"SystemSettings", "r.ShadowQuality">>),
      Item("Shadow Resolution", <<"SystemSettings", "r.Shadow.MaxResolution">>),
      Item("Film Grain", <<"SystemSettings", "r.FilmGrain">>),
      Item("Fog", <<"SystemSettings", "r.Fog">>),
      Item("Volumetric Fog", <<"SystemSettings", "r.VolumetricFog">>),
      Item("Chromatic Aberration", <<"SystemSettings", "r.SceneColorFringeQuality">>),
      Item("Sharpening Strength", <<"SystemSettings", "r.Tonemapper.Sharpen">>),
      Item("View Distance", <<"SystemSettings", "r.ViewDistanceScale">>),
      Item("Shadow Distance", <<"SystemSettings", "r.Shadow.DistanceScale">>),
      Item("Foliage Distance", <<"SystemSettings", "r.Foliage.LODDistanceScale">>)>>

TUI_quality_map ==
    <<Item("Disabled", "0"), Item("Low", "1"), Item("Medium", "2"),
      Item("High", "3"), Item("Very High", "4"), Item("Ultra", "5"),
      Item("2x", "2"), Item("4x", "4"), Item("8x", "8"), Item("16x", "16")>>

Flet_quality_map == Append(TUI_quality_map, Item("Enabled", "1"))

\* TUI_to_engine writing every switch, the fog switches too, as "1" or "0"
TUI_to_engine_numeric(label, option) ==
    IF option.control_type = "select"
    THEN GetOr(TUI_quality_map, option.value, option.value)
    ELSE IF option.control_type = "switch"
    THEN (IF option.on THEN "1" ELSE "0")
    ELSE option.value

\* The value gather_ui_values of the TUI writes for one widget
TUI_to_engine(label, option) ==
    LET value == IF option.control_type = "switch"
                 THEN (IF option.on THEN "True" ELSE "False")
                 ELSE option.value
    IN  IF option.control_type = "select"
        THEN GetOr(TUI_quality_map, value, value)
        ELSE IF option.control_type = "switch"
        THEN (IF label \in {"Fog", "Volumetric Fog"}
              THEN (IF value = "True" THEN "True" ELSE "False")
              ELSE (IF value = "True" THEN "1" ELSE "0"))
        ELSE value

\* The value gather_ui_values of the GUI writes for one control
Flet_to_engine(ui_label, control) ==
    IF control.control_type = "dropdown"
    THEN GetOr(Flet_quality_map, control.value, control.value)
    ELSE IF control.control_type = "slider"
    THEN control.value
    ELSE IF ui_label \in {"Fog", "Volumetric Fog"}
    THEN (IF control.on THEN "True" ELSE "False")
    ELSE (IF control.on THEN "1" ELSE "0")

\* settings[section][key] = value
SetSetting(settings, section_key, value) ==
    Put(settings, section_key[1],
        Put(Get(settings, section_key[1]), section_key[2], TStr(value)))

EmptySettings ==
    <<Item("SystemSettings", <<>>), Item("/Script/Engine.RendererSettings", <<>>)>>

RECURSIVE TUI_gather(_, _, _)
TUI_gather(ctl, settings, i) ==
    IF i > Len(TUI_options) THEN settings
    ELSE LET label == TUI_options[i].k
             option == ctl[label]
         IN  IF option.control_type \in {"select", "input", "switch"}
                /\ Has(TUI_config_map, label)
             THEN TUI_gather(ctl,
                      SetSetting(settings, Get(TUI_config_map, label),
                                 TUI_to_engine(label, option)),
                      i + 1)
             ELSE TUI_gather(ctl, settings, i + 1)

\* gather_ui_values with a key for the Set Config Read-Only switch as well
TUI_gather_ui_values_every_switch(ctl) ==
    SetSetting(TUI_gather(ctl, EmptySettings, 1),
               <<"SystemSettings", "Set Config Read-Only">>,
               IF ctl["Set Config Read-Only"].on THEN "True" ELSE "False")

TUI_gather_ui_values(ctl) == TUI_gather(ctl, EmptySettings, 1)

RECURSIVE Flet_gather(_, _, _)
Flet_gather(ctl, settings, i) ==
    IF i > Len(Flet_config_map) THEN settings
    ELSE LET ui_label == Flet_config_map[i].k
         IN  IF ui_label \in DOMAIN ctl
                /\ ctl[ui_label].control_type \in {"dropdown", "slider", "switch"}
             THEN Flet_gather(ctl,
                      SetSetting(settings, Flet_config_map[i].v,
                                 Flet_to_engine(ui_label, ctl[ui_label])),
                      i + 1)
             ELSE Flet_gather(ctl, settings, i + 1)

Flet_gather_ui_values(ctl) == Flet_gather(ctl, EmptySettings, 1)

(***************************************************************************)
(* Engine value to UI value: the converters of apply_preset_to_ui and      *)
(* apply_preset.  A result is [exc, ty, value]: the exception raised, the  *)
(* Python type of the value and the value as str() prints it.              *)
(***************************************************************************)
Converted(ty, value) == [exc |-> "None", ty |-> ty, value |-> value]

Failed(exc) == [exc |-> exc, ty |-> "", value |-> ""]

\* Integers a string may spell
IntRange == -100..100

\* int(x)
int(x) ==
    CASE x.ty = "int" -> [exc |-> "None", n |-> x.n]
      [] x.ty = "bool" -> [exc |-> "None", n |-> IF x.b THEN 1 ELSE 0]
      [] x.ty = "str" ->
            IF \E n \in IntRange : ToString(n) = x.s
            THEN [exc |-> "None", n |-> CHOOSE n \in IntRange : ToString(n) = x.s]
            ELSE [exc |-> "ValueError", n |-> 0]

\* Strings float() parses, with the float as str() prints it
FloatTable ==
    <<Item("0.5", "0.5"), Item("1.0", "1.0"), Item("2.50", "2.5"),
      Item("2.5", "2.5"), Item("2.75", "2.75"), Item("3", "3.0")>>

\* float(x)
float(x) ==
    CASE x.ty = "int" -> Converted("float", ToString(x.n) \o ".0")
      [] x.ty = "bool" -> Converted("float", IF x.b THEN "1.0" ELSE "0.0")
      [] x.ty = "str" ->
            IF Has(FloatTable, x.s) THEN Converted("float", Get(FloatTable, x.s))
            ELSE IF int(x).exc = "None"
            THEN Converted("float", ToString(int(x).n) \o ".0")
            ELSE Failed("ValueError")

\* x.lower() == "true"
lower_is_true(x) == x.s \in {"true", "True", "TRUE"}

\* x != "0"
not_zero_string(x) == x.ty # "str" \/ x.s # "0"

min(a, b) == IF a <= b THEN a ELSE b

\* list[index], a negative index counting from the end
getitem(list, index) ==
    IF index >= 0 /\ index < Len(list) THEN Converted("str", list[index + 1])
    ELSE IF index < 0 /\ index >= -Len(list)
    THEN Converted("str", list[Len(list) + index + 1])
    ELSE Failed("IndexError")

\* The quality converters without the clamp: table[int(x)]
quality_word_unclamped(table, top, x) ==
    IF int(x).exc # "None" THEN Failed(int(x).exc)
    ELSE getitem(table, int(x).n)

\* lambda x: table[min(int(x), top)]
quality_word(table, top, x) ==
    IF int(x).exc # "None" THEN Failed(int(x).exc)
    ELSE getitem(table, min(int(x).n, top))

enabled_word(flag) == Converted("str", IF flag THEN "Enabled" ELSE "Disabled")

\* The keys both front ends convert the same way
common_converter(config_key, x) ==
    CASE config_key = "r.MaxAnisotropy" ->
            IF not_zero_string(x) THEN Converted("str", str(x) \o "x")
            ELSE Converted("str", "Disabled")
      [] config_key \in {"r.DepthOfFieldQuality", "r.BloomQuality",
                         "r.MotionBlurQuality", "r.LensFlareQuality"} ->
            quality_word(quality_options, 5, x)
      [] config_key = "r.ShadowQuality" -> quality_word(shadow_options, 3, x)
      [] config_key = "r.FilmGrain" -> enabled_word(not_zero_string(x))

\* ui_mappings of ClairConfigTUI.apply_preset_to_ui
TUI_ui_mappings ==
    <<Item("r.MaxAnisotropy", "Anisotropic Filtering"),
      Item("r.DepthOfFieldQuality", "Depth of Field"),
      Item("r.BloomQuality", "Bloom"),
      Item("r.MotionBlurQuality", "Motion Blur"),
      Item("r.LensFlareQuality", "Lens Flares"),
      Item("r.ShadowQuality", "Shadow Quality"),
      Item("r.FilmGrain", "Film Grain"),
      Item("r.Fog", "Fog"),
      Item("r.VolumetricFog", "Volumetric Fog"),
      Item("r.SceneColorFringeQuality", "Chromatic Aberration"),
      Item("r.ViewDistanceScale", "View Distance"),
      Item("r.Tonemapper.Sharpen", "Sharpening Strength")>>

TUI_converter(config_key, x) ==
    CASE config_key \in {"r.Fog", "r.VolumetricFog"} ->
            IF x.ty # "str" THEN Failed("AttributeError")
            ELSE enabled_word(lower_is_true(x))
      [] config_key = "r.SceneColorFringeQuality" ->
            enabled_word(not_zero_string(x))
      [] config_key \in {"r.ViewDistanceScale", "r.Tonemapper.Sharpen"} ->
            Converted(x.ty, str(x))
      [] OTHER -> common_converter(config_key, x)

\* mappings of ClairConfigFlet.apply_preset
Flet_mappings ==
    <<Item("r.MaxAnisotropy", "Anisotropic Filtering"),
      Item("r.DepthOfFieldQuality", "Depth of Field"),
      Item("r.BloomQuality", "Bloom"),
      Item("r.MotionBlurQuality", "Motion Blur"),
      Item("r.LensFlareQuality", "Lens Flares"),
      Item("r.ShadowQuality", "Shadow Quality"),
      Item("r.FilmGrain", "Film Grain"),
      Item("r.Fog", "Fog"),
      Item("r.VolumetricFog", "Volumetric Fog"),
      Item("r.ViewDistanceScale", "View Distance"),
      Item("r.Tonemapper.Sharpen", "Sharpening Strength")>>

Flet_converter(config_key, x) ==
    CASE config_key \in {"r.Fog", "r.VolumetricFog"} ->
            IF x.ty # "str" THEN Failed("AttributeError")
            ELSE Converted("bool", IF lower_is_true(x) THEN "True" ELSE "False")
      [] config_key \in {"r.ViewDistanceScale", "r.Tonemapper.Sharpen"} -> float(x)
      [] OTHER -> common_converter(config_key, x)

\* repr(s) of a string
repr(s) == "'" \o s \o "'"

\* str(e) of the exception a converter raises on the string x, in pieces
exception_message(exc, config_key, x) ==
    CASE exc = "ValueError"
           /\ config_key \in {"r.ViewDistanceScale", "r.Tonemapper.Sharpen"} ->
            <<"could not convert string to float: ", repr(x.s)>>
      [] exc = "ValueError" ->
            <<"invalid literal for int() with base 10: ", repr(x.s)>>
      [] exc = "IndexError" -> <<"list index out of range">>
      [] exc = "AttributeError" ->
            <<"'" \o x.ty \o "' object has no attribute 'lower'">>
      [] OTHER -> <<>>

\* What the user is shown when the converter raises: the TUI lets the
\* exception leave the handler, the GUI shows it in the error snack bar
error_shown(fe, exc, config_key, x) ==
    IF exc = "None" THEN <<>>
    ELSE IF fe = "gui"
    THEN <<"Error applying preset: ">> \o exception_message(exc, config_key, x)
    ELSE exception_message(exc, config_key, x)

\* A dict of typed values as the strings str() gives
Rendered(d) ==
    [i \in 1..Len(d) |->
        Item(d[i].k, [j \in 1..Len(d[i].v) |->
                         Item(d[i].v[j].k, str(d[i].v[j].v))])]

\* A document of strings as a dict of typed values
Typed(d) ==
    [i \in 1..Len(d) |->
        Item(d[i].k, [j \in 1..Len(d[i].v) |->
                         Item(d[i].v[j].k, TStr(d[i].v[j].v))])]

\* The merge of an overlay onto a document, as the loop of
\* apply_custom_settings does it on the parsed document
Merge(document, overlay) ==
    apply_settings([NewParser EXCEPT !.config = document], overlay, 1)

\* Setting the widget of a ConfigOption of the TUI: a Select takes one of its
\* options and raises on any other value, a Switch is on for "Enabled".  An
\* Input takes a str; the presets of the model hold no key of an Input.
set_widget(option, converted) ==
    CASE option.control_type = "select" ->
            IF converted.ty = "str"
               /\ \E i \in 1..Len(option.options) : option.options[i] = converted.value
            THEN [exc |-> "None", option |-> [option EXCEPT !.value = converted.value]]
            ELSE [exc |-> "InvalidSelectValueError", option |-> option]
      [] option.control_type = "input" ->
            IF converted.ty = "str"
            THEN [exc |-> "None", option |-> [option EXCEPT !.value = converted.value]]
            ELSE [exc |-> "TypeError", option |-> option]
      [] OTHER ->
            [exc |-> "None",
             option |-> [option EXCEPT !.on = (converted.ty = "str"
                                                /\ converted.value = "Enabled")]]

\* ClairConfigTUI.update_ui_control: the error of the widget is swallowed
update_ui_control(ctl, label, converted) ==
    IF label \notin DOMAIN ctl THEN ctl
    ELSE [ctl EXCEPT ![label] = set_widget(ctl[label], converted).option]

\* The loop of apply_preset_to_ui over ui_mappings; r is [controls, exc]
RECURSIVE TUI_apply_mappings(_, _, _)
TUI_apply_mappings(r, system_settings, i) ==
    IF r.exc # "None" \/ i > Len(TUI_ui_mappings) THEN r
    ELSE LET config_key == TUI_ui_mappings[i].k
             ui_label == TUI_ui_mappings[i].v
         IN  IF ~Has(system_settings, config_key)
             THEN TUI_apply_mappings(r, system_settings, i + 1)
             ELSE LET value == Get(system_settings, config_key)
                      converted_value == TUI_converter(config_key, value)
                  IN  IF converted_value.exc # "None"
                      THEN [r EXCEPT !.exc = converted_value.exc,
                                     !.shown = error_shown("tui", converted_value.exc,
                                                           config_key, value)]
                      ELSE TUI_apply_mappings(
                               [r EXCEPT !.controls =
                                   update_ui_control(r.controls, ui_label,
                                                     converted_value)],
                               system_settings, i + 1)

\* ClairConfigTUI.apply_preset_to_ui; an exception of a converter leaves it
TUI_apply_preset_to_ui(cfg, ctl, preset_name) ==
    LET preset_config == get_performance_preset(cfg, preset_name)
        system_settings == GetOr(preset_config, "SystemSettings", <<>>)
    IN  TUI_apply_mappings([controls |-> ctl, exc |-> "None", shown |-> <<>>],
                           system_settings, 1)

\* control.value = converted_value on a Flet control: any value is taken
set_control(control, converted) ==
    IF control.control_type = "switch"
    THEN [control EXCEPT !.on = (converted.value = "True")]
    ELSE [control EXCEPT !.value = converted.value]

\* The loop of apply_preset over mappings; r is [controls, exc]
RECURSIVE Flet_apply_mappings(_, _, _)
Flet_apply_mappings(r, system_settings, i) ==
    IF r.exc # "None" \/ i > Len(Flet_mappings) THEN r
    ELSE LET config_key == Flet_mappings[i].k
             ui_label == Flet_mappings[i].v
         IN  IF ~(Has(system_settings, config_key) /\ ui_label \in DOMAIN r.controls)
             THEN Flet_apply_mappings(r, system_settings, i + 1)
             ELSE LET value == Get(system_settings, config_key)
                      converted_value == Flet_converter(config_key, value)
                  IN  IF converted_value.exc # "None"
                      THEN [r EXCEPT !.exc = converted_value.exc,
                                     !.shown = error_shown("gui", converted_value.exc,
                                                           config_key, value)]
                      ELSE Flet_apply_mappings(
                               [r EXCEPT !.controls[ui_label] =
                                   set_control(@, converted_value)],
                               system_settings, i + 1)

\* preset_name.title()
title(preset_name) ==
    CASE preset_name = "low" -> "Low"
      [] preset_name = "balanced" -> "Balanced"
      [] preset_name = "ultra" -> "Ultra"
      [] preset_name = "custom" -> "Custom"
      [] OTHER -> preset_name

\* ClairConfigFlet.apply_preset; an exception ends in the error snack bar,
\* shown in r.shown, the controls set before it stay set
Flet_apply_preset(cfg, ctl, preset_name) ==
    LET preset_config == get_performance_preset(cfg, preset_name)
        system_settings == GetOr(preset_config, "SystemSettings", <<>>)
        r == Flet_apply_mappings([controls |-> ctl, exc |-> "None", shown |-> <<>>],
                                 system_settings, 1)
    IN  IF r.exc # "None" THEN [r EXCEPT !.exc = "None"]
        ELSE [r EXCEPT !.shown = <<title(preset_name) \o " preset applied">>]

(***************************************************************************)
(* The handlers of the front ends and the commands of the CLI.             *)
(***************************************************************************)
get_engine_tweaks_setting(ctl) == ctl["Include Engine Tweaks"].on

get_read_only_setting(ctl) == ctl["Set Config Read-Only"].on

\* action_save_changes applying the tweaks whatever the switch
TUI_action_save_changes_tweaks(w, ctl) ==
    LET settings == TUI_gather_ui_values(ctl)
        w1 == backup_existing_config(w)
        w2 == apply_custom_settings(w1, settings)
        w3 == apply_custom_settings(w2, get_engine_tweaks(w.toml_config))
    IN  set_read_only(w3, get_read_only_setting(ctl))

\* action_save_changes merging the gathered settings into the dict that
\* get_engine_tweaks returns, which is the catalog's own, before applying it
TUI_action_save_changes_update(w, ctl) ==
    LET settings == TUI_gather_ui_values(ctl)
        w1 == backup_existing_config(w)
        tweaks == Typed(Merge(Rendered(get_engine_tweaks(w.toml_config)),
                              settings).config)
        w2 == IF get_engine_tweaks_setting(ctl)
              THEN [apply_custom_settings(w1, tweaks)
                      EXCEPT !.toml_config.engine_tweaks = tweaks]
              ELSE apply_custom_settings(w1, settings)
    IN  set_read_only(w2, get_read_only_setting(ctl))

\* ClairConfigTUI.action_save_changes; an exception leaves the handler
TUI_action_save_changes(w, ctl) ==
    LET settings == TUI_gather_ui_values(ctl)
        include_tweaks == get_engine_tweaks_setting(ctl)
        w1 == backup_existing_config(w)
        w2 == apply_custom_settings(w1, settings)
        w3 == IF include_tweaks
              THEN apply_custom_settings(w2, get_engine_tweaks(w.toml_config))
              ELSE w2
    IN  set_read_only(w3, get_read_only_setting(ctl))

\* The snack bar save_changes shows
Snackbar(message) == <<Item("snackbar", message)>>

\* ClairConfigFlet.save_changes; an exception ends in the error snack bar
Flet_save_changes(w, ctl) ==
    LET settings == Flet_gather_ui_values(ctl)
        w1 == backup_existing_config(w)
        w2 == apply_custom_settings(w1, settings)
        w3 == IF ctl["Include Engine Tweaks"].on
              THEN apply_custom_settings(w2, get_engine_tweaks(w.toml_config))
              ELSE w2
        read_only == ctl["Set Config Read-Only"].on
        w4 == set_read_only(w3, read_only)
    IN  IF Raised(w4)
        THEN [w4 EXCEPT !.exc = "None",
                        !.ret = Snackbar("Error saving configuration")]
        ELSE [w4 EXCEPT !.ret =
                 Snackbar(IF read_only
                          THEN "Configuration saved and set to read-only!"
                          ELSE "Configuration saved successfully!")]

\* main(): create [--preset P] [--no-tweaks] [--read-only]
main_create(w, preset, no_tweaks, read_only) ==
    LET w1 == backup_existing_config(w)
        w2 == create_engine_ini(w1, preset, ~no_tweaks)
    IN  IF read_only THEN set_read_only(w2, TRUE) ELSE w2

\* main(): show
main_show(w) == show_current_config(w)

\* main(): backup
main_backup(w) == backup_existing_config(w)

\* dict(args.setting): a later pair of a key replaces the earlier one
RECURSIVE dict(_, _)
dict(setting, i) ==
    IF i = 0 THEN <<>>
    ELSE Put(dict(setting, i - 1), setting[i][1], TStr(setting[i][2]))

\* main(): custom --section S [--setting KEY VALUE]...
main_custom(w, section, setting) ==
    IF Len(setting) = 0
    THEN [w EXCEPT !.ret = <<Item("Error: --setting is required for custom command", <<>>)>>]
    ELSE apply_custom_settings(w, <<Item(section, dict(setting, Len(setting)))>>)

\* main(): readonly on|off
main_readonly(w, status) == set_read_only(w, status = "on")

(***************************************************************************)
(* The application: a front end with its controls, or the CLI, on a user   *)
(* directory.                                                              *)
(***************************************************************************)
\* Directories the application starts on: no target, a target that is
\* writable or read-only, a target next to an older backup
AppFs ==
    LET lines == <<Ignored("; edited by hand"), SecLine("SystemSettings"),
                   OptLine("r.BloomQuality", "1"), OptLine("r.Fog", "True"),
                   SecLine("X"), OptLine("a", "1")>>
        target(mode) == WithFile(NoFiles, engine_ini_path, File(lines, mode))
    IN  {NoFiles, target(CreateMode), target(BitAndNot(CreateMode, S_IWUSR)),
         WithFile(target(CreateMode), with_suffix(engine_ini_path, ".ini.backup"),
                  File(<<SecLine("Old"), OptLine("o", "0")>>, CreateMode))}

\* The switches and the words of the Bloom dropdown the user sets
EditedSwitches == {"Include Engine Tweaks", "Set Config Read-Only"}

EditedWords == {"Low", "Very High"}

\* --preset, --section and --setting arguments of the commands
CliPresets == {"balanced", "ultra"}

CliSettings ==
    {<<>>, <<<<"a", "2">>>>,
     <<<<"r.BloomQuality", "3">>, <<"r.BloomQuality", "5">>>>}

CliSections == {"X", "SystemSettings"}

StartControls(fe) ==
    CASE fe = "tui" -> ControlsOf(TUI_options)
      [] fe = "gui" -> ControlsOf(Flet_config_controls)
      [] OTHER -> NoControls

InitApp ==
    /\ toml_config \in Catalogs
    /\ fs \in AppFs
    /\ frontend \in {"tui", "gui", "cli"}
    /\ controls = StartControls(frontend)
    /\ hist = Hist("init", NoArgs, fs, World(fs, toml_config),
                   [op |-> "init", args |-> NoArgs, pre |-> fs, exc |-> "None"])
    /\ steps = 0
    /\ conv = NoConv

\* The user flips a switch
ToggleSwitch ==
    /\ frontend \in {"tui", "gui"}
    /\ \E label \in EditedSwitches :
           controls' = [controls EXCEPT ![label].on = ~@]
    /\ UNCHANGED <<toml_config, fs, frontend, hist, steps, conv>>

\* The user picks a word of the Bloom dropdown
SelectWord ==
    /\ frontend \in {"tui", "gui"}
    /\ \E word \in EditedWords :
           /\ word # controls["Bloom"].value
           /\ controls' = [controls EXCEPT !["Bloom"].value = word]
    /\ UNCHANGED <<toml_config, fs, frontend, hist, steps, conv>>

SaveArgs(settings, ctl) ==
    [NoArgs EXCEPT !.custom_settings = settings,
                   !.include_tweaks = ctl["Include Engine Tweaks"].on,
                   !.read_only = ctl["Set Config Read-Only"].on]

ActionSaveChanges ==
    /\ frontend = "tui"
    /\ Done("action_save_changes",
            SaveArgs(TUI_gather_ui_values(controls), controls),
            TUI_action_save_changes(Now, controls))

SaveChanges ==
    /\ frontend = "gui"
    /\ Done("save_changes",
            SaveArgs(Flet_gather_ui_values(controls), controls),
            Flet_save_changes(Now, controls))

MainCreate ==
    /\ frontend = "cli"
    /\ \E preset \in CliPresets, no_tweaks \in BOOLEAN, read_only \in BOOLEAN :
           Done("create",
                [NoArgs EXCEPT !.preset = preset, !.include_tweaks = ~no_tweaks,
                               !.read_only = read_only],
                main_create(Now, preset, no_tweaks, read_only))

MainShow == frontend = "cli" /\ Done("show", NoArgs, main_show(Now))

MainBackup == frontend = "cli" /\ Done("backup", NoArgs, main_backup(Now))

MainCustom ==
    /\ frontend = "cli"
    /\ \E section \in CliSections, setting \in CliSettings :
           Done("custom",
                [NoArgs EXCEPT !.custom_settings =
                    <<Item(section, dict(setting, Len(setting)))>>],
                main_custom(Now, section, setting))

MainReadonly ==
    /\ frontend = "cli"
    /\ \E status \in {"on", "off"} :
           Done("readonly", [NoArgs EXCEPT !.read_only = (status = "on")],
                main_readonly(Now, status))

\* The preset buttons pressed: the GUI has one more, Custom
PresetButtons(fe) ==
    IF fe = "gui" THEN {"low", "balanced", "ultra", "custom"}
    ELSE {"low", "balanced", "ultra"}

\* The effect of one handler that ends in world w with the controls ctl
DoneUi(op, args, w, ctl) ==
    /\ steps < MaxOps
    /\ steps' = steps + 1
    /\ fs' = w.fs
    /\ toml_config' = w.toml_config
    /\ controls' = ctl
    /\ hist' = Hist(op, args, fs, w, Prev(hist))
    /\ UNCHANGED <<frontend, conv>>

\* A preset button of the TUI: apply_preset_to_ui(name)
ApplyPresetToUi ==
    /\ frontend = "tui"
    /\ \E preset_name \in PresetButtons(frontend) :
           LET r == TUI_apply_preset_to_ui(toml_config, controls, preset_name)
           IN  DoneUi("apply_preset_to_ui", [NoArgs EXCEPT !.preset = preset_name],
                      [Now EXCEPT !.exc = r.exc, !.ret = r.shown], r.controls)

\* A preset button of the GUI: apply_preset(name)
ApplyPreset ==
    /\ frontend = "gui"
    /\ \E preset_name \in PresetButtons(frontend) :
           LET r == Flet_apply_preset(toml_config, controls, preset_name)
           IN  DoneUi("apply_preset", [NoArgs EXCEPT !.preset = preset_name],
                      [Now EXCEPT !.ret = r.shown], r.controls)

NextApp ==
    \/ ToggleSwitch
    \/ SelectWord
    \/ ApplyPresetToUi
    \/ ApplyPreset
    \/ ActionSaveChanges
    \/ SaveChanges
    \/ MainCreate
    \/ MainShow
    \/ MainBackup
    \/ MainCustom
    \/ MainReadonly

SpecApp == InitApp /\ [][NextApp]_vars

(***************************************************************************)
(* The value mapper on its own: a word of a dropdown is converted to its   *)
(* engine string, and the engine string back to a word.                    *)
(***************************************************************************)
DropdownLabels(fe) ==
    {l \in DOMAIN StartControls(fe) :
        StartControls(fe)[l].control_type \in {"select", "dropdown"}}

InitMapper ==
    /\ toml_config \in Catalogs
    /\ fs = NoFiles
    /\ frontend \in {"tui", "gui"}
    /\ controls = StartControls(frontend)
    /\ hist = Hist("init", NoArgs, fs, World(fs, toml_config),
                   [op |-> "init", args |-> NoArgs, pre |-> fs, exc |-> "None"])
    /\ steps = 0
    /\ \E label \in DropdownLabels(frontend) :
           \E i \in 1..Len(controls[label].options) :
               conv = [NoConv EXCEPT !.stage = "ui", !.label = label,
                                     !.value = controls[label].options[i]]

\* gather_ui_values on the one control
ToEngine ==
    /\ conv.stage = "ui"
    /\ LET control == [controls[conv.label] EXCEPT !.value = conv.value]
       IN  conv' = [conv EXCEPT
                      !.stage = "engine",
                      !.engine = IF frontend = "tui"
                                 THEN TUI_to_engine(conv.label, control)
                                 ELSE Flet_to_engine(conv.label, control)]
    /\ UNCHANGED <<toml_config, fs, controls, frontend, hist, steps>>

\* The converter apply_preset_to_ui / apply_preset has for the key of the
\* control, on the engine string
FromEngine ==
    /\ conv.stage = "engine"
    /\ LET config_map == IF frontend = "tui" THEN TUI_config_map ELSE Flet_config_map
           mappings == IF frontend = "tui" THEN TUI_ui_mappings ELSE Flet_mappings
           config_key == Get(config_map, conv.label)[2]
           converted == IF frontend = "tui"
                        THEN TUI_converter(config_key, TStr(conv.engine))
                        ELSE Flet_converter(config_key, TStr(conv.engine))
       IN  /\ Has(mappings, config_key)
           /\ Get(mappings, config_key) = conv.label
           /\ conv' = [conv EXCEPT !.stage = "back", !.back = converted.value,
                                   !.exc = converted.exc]
    /\ UNCHANGED <<toml_config, fs, controls, frontend, hist, steps>>

NextMapper == ToEngine \/ FromEngine

SpecMapper == InitMapper /\ [][NextMapper]_vars

(***************************************************************************)
(* The converters on their own: an engine string of a preset is converted  *)
(* for the control of its key, as one pass of the loop of                  *)
(* apply_preset_to_ui / apply_preset does.                                 *)
(***************************************************************************)
\* Engine strings a preset may hold for a key
EngineStrings ==
    {"0", "1", "3", "5", "9", "99", "-1", "-7", "abc", "2.75", "True", "false"}

mappings_of(fe) == IF fe = "tui" THEN TUI_ui_mappings ELSE Flet_mappings

converter_of(fe, config_key, x) ==
    IF fe = "tui" THEN TUI_converter(config_key, x) ELSE Flet_converter(config_key, x)

InitConverter ==
    /\ toml_config \in Catalogs
    /\ fs = NoFiles
    /\ frontend \in {"tui", "gui"}
    /\ controls = StartControls(frontend)
    /\ hist = Hist("init", NoArgs, fs, World(fs, toml_config),
                   [op |-> "init", args |-> NoArgs, pre |-> fs, exc |-> "None"])
    /\ steps = 0
    /\ \E config_key \in Keys(mappings_of(frontend)), value \in EngineStrings :
           conv = [stage |-> "preset", key |-> config_key,
                   label |-> Get(mappings_of(frontend), config_key),
                   value |-> "", engine |-> value, back |-> "", ty |-> "",
                   exc |-> "None", shown |-> <<>>]

\* converted_value = converter(value)
ConvertPresetValue ==
    /\ conv.stage = "preset"
    /\ LET converted == converter_of(frontend, conv.key, TStr(conv.engine))
       IN  conv' = [conv EXCEPT
                      !.stage = "converted",
                      !.back = converted.value,
                      !.ty = converted.ty,
                      !.exc = converted.exc,
                      !.shown = error_shown(frontend, converted.exc, conv.key,
                                            TStr(conv.engine))]
    /\ UNCHANGED <<toml_config, fs, controls, frontend, hist, steps>>

NextConverter == ConvertPresetValue

SpecConverter == InitConverter /\ [][NextConverter]_vars

(***************************************************************************)
(* gather_ui_values on its own: the switches of a front end stand in any   *)
(* combination, and the values of the controls are gathered.               *)
(***************************************************************************)
config_map_of(fe) == IF fe = "tui" THEN TUI_config_map ELSE Flet_config_map

\* The switches of a front end that gather_ui_values writes a key for
MappedSwitches(fe) ==
    {l \in DOMAIN StartControls(fe) :
        StartControls(fe)[l].control_type = "switch" /\ Has(config_map_of(fe), l)}

\* The controls of a front end with its mapped switches set as in on
WithSwitches(fe, on) ==
    [l \in DOMAIN StartControls(fe) |->
        IF l \in MappedSwitches(fe)
        THEN [StartControls(fe)[l] EXCEPT !.on = on[l]]
        ELSE StartControls(fe)[l]]

gather_ui_values(fe, ctl) ==
    IF fe = "tui" THEN TUI_gather_ui_values(ctl) ELSE Flet_gather_ui_values(ctl)

InitGather ==
    /\ toml_config \in Catalogs
    /\ fs = NoFiles
    /\ frontend \in {"tui", "gui"}
    /\ \E on \in [MappedSwitches(frontend) -> BOOLEAN] :
           controls = WithSwitches(frontend, on)
    /\ hist = Hist("init", NoArgs, fs, World(fs, toml_config),
                   [op |-> "init", args |-> NoArgs, pre |-> fs, exc |-> "None"])
    /\ steps = 0
    /\ conv = NoConv

GatherUiValues ==
    Done("gather_ui_values", NoArgs,
         [Now EXCEPT !.ret = gather_ui_values(frontend, controls)])

NextGather == GatherUiValues

SpecGather == InitGather /\ [][NextGather]_vars

(***************************************************************************)
(* Writes that do not reach their end.  open(path, 'w') truncates the      *)
(* target before config.write emits the first line; when the write stops   *)
(* part-way (the device is full, the process is ended) the target holds    *)
(* the lines that reached it: any proper prefix of the new content, the    *)
(* empty one included.                                                     *)
(***************************************************************************)
\* with open(path, 'w') as f: config.write(f), stopped after n lines
open_w_write_stopped(w, path, config, n) ==
    IF exists(w.fs, path) /\ ~Writable(w.fs, path) THEN Raise(w, "PermissionError")
    ELSE [w EXCEPT
            !.fs = WithFile(w.fs, path,
                       File(SubSeq(write(config, 1), 1, n),
                            IF exists(w.fs, path) THEN w.fs[path].mode
                            ELSE CreateMode)),
            !.log = Append(w.log, WriteEvent(w.fs, path)),
            !.exc = "OSError"]

\* The document create_engine_ini builds before it opens the target
create_engine_ini_config(w, preset, include_tweaks) ==
    LET c1 == add_preset(NewParser,
                         get_performance_preset(w.toml_config, preset), 1)
    IN  IF include_tweaks
        THEN apply_settings(c1, get_engine_tweaks(w.toml_config), 1)
        ELSE c1

\* The document apply_custom_settings builds before it opens the target
apply_custom_settings_config(w, custom_settings) ==
    apply_settings(IF exists(w.fs, engine_ini_path)
                   THEN read(NewParser, w.fs, engine_ini_path)
                   ELSE NewParser,
                   custom_settings, 1)

\* The numbers of lines a write of config may stop after
StopPoints(config) == 0..(Len(write(config, 1)) - 1)

CreateEngineIniStopped ==
    \E preset \in PresetNames, include_tweaks \in BOOLEAN :
        LET c == create_engine_ini_config(Now, preset, include_tweaks)
        IN  /\ c.exc = "None"
            /\ \E n \in StopPoints(c.config) :
                   Done("create_engine_ini",
                        [NoArgs EXCEPT !.preset = preset,
                                       !.include_tweaks = include_tweaks],
                        open_w_write_stopped(Now, engine_ini_path, c.config, n))

ApplyCustomSettingsStopped ==
    \E custom_settings \in Overlays \cup {get_engine_tweaks(toml_config)} :
        LET c == apply_custom_settings_config(Now, custom_settings)
        IN  /\ c.exc = "None"
            /\ \E n \in StopPoints(c.config) :
                   Done("apply_custom_settings",
                        [NoArgs EXCEPT !.custom_settings = custom_settings],
                        open_w_write_stopped(Now, engine_ini_path, c.config, n))

\* The directories of AppFs, under any catalog
InitWrite ==
    /\ toml_config \in Catalogs
    /\ fs \in AppFs
    /\ controls = NoControls
    /\ frontend = "none"
    /\ hist = Hist("init", NoArgs, fs, World(fs, toml_config),
                   [op |-> "init", args |-> NoArgs, pre |-> fs, exc |-> "None"])
    /\ steps = 0
    /\ conv = NoConv

NextWrite ==
    \/ CreateEngineIni
    \/ ApplyCustomSettings
    \/ CreateEngineIniStopped
    \/ ApplyCustomSettingsStopped

SpecWrite == InitWrite /\ [][NextWrite]_vars

(***************************************************************************)
(* Reading documents off states, for the properties below.                 *)
(***************************************************************************)
backup_path == <<"Engine", ".ini.backup">>

\* The (section, key, value) entries and the sections of a parsed document
Entries(config) ==
    UNION {{<<config[i].k, config[i].v[j].k, config[i].v[j].v>> :
               j \in 1..Len(config[i].v)} : i \in 1..Len(config)}

\* Could the target of f be parsed, and the document it then holds
Parses(f) ==
    exists(f, engine_ini_path) => read(NewParser, f, engine_ini_path).exc = "None"

Document(f) ==
    IF exists(f, engine_ini_path)
    THEN read(NewParser, f, engine_ini_path).config ELSE <<>>

Defines(config, section, key) ==
    \E e \in Entries(config) : e[1] = section /\ e[2] = key

\* The entries of base not redefined by top, and the entries of top
Overlaid(base, top) ==
    {e \in Entries(base) : ~Defines(top, e[1], e[2])} \cup Entries(top)

\* The entries a left-to-right merge of docs must hold: each (section, key)
\* with the value of the last document that contains it
LastWins(docs) ==
    {e \in UNION {Entries(docs[i]) : i \in 1..Len(docs)} :
        \E i \in 1..Len(docs) :
            /\ e \in Entries(docs[i])
            /\ \A j \in (i + 1)..Len(docs) : ~Defines(docs[j], e[1], e[2])}

SectionsOf(docs) == UNION {Keys(docs[i]) : i \in 1..Len(docs)}

Returned(op) == hist.op = op /\ hist.exc = "None"

(***************************************************************************)
(* Properties of the store (specification Spec).                           *)
(***************************************************************************)

\* C1: when apply_custom_settings(O) returns on a target holding document D
\* (the empty document when there is no target), the target parses and holds
\* every (section, key) of D that O does not define with its value from D,
\* every (section, key) of O with its value from O (as str() renders it),
\* nothing else, and the sections of both.
C1_ApplyPreservesUnrelated ==
    Returned("apply_custom_settings") =>
        LET D == Document(hist.pre)
            O == Rendered(hist.args.custom_settings)
            R == Document(fs)
        IN  /\ Parses(fs)
            /\ \A e \in Entries(D) : ~Defines(O, e[1], e[2]) => e \in Entries(R)
            /\ Entries(O) \subseteq Entries(R)
            /\ Entries(R) \subseteq Entries(D) \cup Entries(O)
            /\ Keys(R) = Keys(D) \cup Keys(O)

\* An overlay was applied to an existing target one of whose entries it
\* leaves alone and one of whose entries it overrides with another value.
C1_Witness ==
    /\ Returned("apply_custom_settings")
    /\ exists(hist.pre, engine_ini_path)
    /\ LET D == Document(hist.pre)
           O == Rendered(hist.args.custom_settings)
       IN  /\ \E e \in Entries(D) : ~Defines(O, e[1], e[2])
           /\ \E e \in Entries(D) : Defines(O, e[1], e[2]) /\ e \notin Entries(O)

\* C2: the merge loops have left-to-right precedence per (section, key): two
\* apply_custom_settings calls in a row leave the last-wins merge of the
\* document before them and the two overlays, create_engine_ini leaves the
\* last-wins merge of the preset and (when included) the tweaks; every
\* section of every merged document is present, so no key an earlier
\* document supplied is deleted.
C2_MergeLastWins ==
    /\ (Returned("apply_custom_settings")
          /\ hist.prev.op = "apply_custom_settings" /\ hist.prev.exc = "None") =>
            LET docs == <<Document(hist.prev.pre),
                          Rendered(hist.prev.args.custom_settings),
                          Rendered(hist.args.custom_settings)>>
            IN  /\ Entries(Document(fs)) = LastWins(docs)
                /\ Keys(Document(fs)) = SectionsOf(docs)
    /\ Returned("create_engine_ini") =>
            LET P == Rendered(GetOr(toml_config.presets, hist.args.preset,
                                    Get(toml_config.presets, "balanced")))
                docs == IF hist.args.include_tweaks
                        THEN <<P, Rendered(toml_config.engine_tweaks)>>
                        ELSE <<P>>
            IN  /\ Entries(Document(fs)) = LastWins(docs)
                /\ Keys(Document(fs)) = SectionsOf(docs)

\* Two overlays were applied in a row, the second overriding a key of the
\* section the first had written and leaving another key of it alone.
C2_Witness ==
    /\ Returned("apply_custom_settings")
    /\ hist.prev.op = "apply_custom_settings" /\ hist.prev.exc = "None"
    /\ LET A == Rendered(hist.prev.args.custom_settings)
           B == Rendered(hist.args.custom_settings)
       IN  /\ \E e \in Entries(A) : Defines(B, e[1], e[2]) /\ e \notin Entries(B)
           /\ \E e \in Entries(A) : e[1] \in Keys(B) /\ ~Defines(B, e[1], e[2])

\* C3: when create_engine_ini(preset, include_tweaks) returns, the target
\* holds exactly the resolved preset, with the tweaks laid over it when
\* include_tweaks is true, whatever it held before.
C3_CreateIsFresh ==
    Returned("create_engine_ini") =>
        LET P == Rendered(get_performance_preset(toml_config, hist.args.preset))
            T == Rendered(get_engine_tweaks(toml_config))
            R == Document(fs)
        IN  /\ Parses(fs)
            /\ IF hist.args.include_tweaks
               THEN Entries(R) = Overlaid(P, T) /\ Keys(R) = Keys(P) \cup Keys(T)
               ELSE Entries(R) = Entries(P) /\ Keys(R) = Keys(P)

\* create_engine_ini replaced a target that held an entry neither the preset
\* nor the tweaks supply, with tweaks that override a value of the preset.
C3_Witness ==
    /\ Returned("create_engine_ini")
    /\ hist.args.include_tweaks
    /\ exists(hist.pre, engine_ini_path) /\ Parses(hist.pre)
    /\ \E e \in Entries(Document(hist.pre)) :
           ~\E r \in Entries(Document(fs)) : r[1] = e[1] /\ r[2] = e[2]
    /\ \E e \in Entries(Rendered(get_performance_preset(toml_config,
                                                        hist.args.preset))) :
           e \notin Entries(Document(fs))

\* C5: a write (create_engine_ini or apply_custom_settings, whether it
\* returns or raises) that follows a backup_existing_config that returned on
\* an existing target leaves the backup holding, line for line, what the
\* target held just before the write; a backup that returns yields the fixed
\* path Engine.ini.backup and leaves the target's content there, and the
\* directory never holds a file other than the target and that backup.
C5_BackupHoldsPreWriteContent ==
    /\ DOMAIN fs \subseteq {engine_ini_path, backup_path}
    /\ (Returned("backup_existing_config") /\ exists(hist.pre, engine_ini_path)) =>
            /\ hist.ret = backup_path
            /\ exists(fs, backup_path)
            /\ fs[backup_path].lines = hist.pre[engine_ini_path].lines
    /\ (/\ hist.op \in {"create_engine_ini", "apply_custom_settings"}
        /\ hist.prev.op = "backup_existing_config" /\ hist.prev.exc = "None"
        /\ exists(hist.prev.pre, engine_ini_path)) =>
            /\ exists(fs, backup_path)
            /\ fs[backup_path].lines = hist.pre[engine_ini_path].lines

\* A backup replaced an earlier backup of other content, and the write after
\* it changed the target.
C5_Witness ==
    /\ hist.op \in {"create_engine_ini", "apply_custom_settings"}
    /\ hist.exc = "None"
    /\ hist.prev.op = "backup_existing_config" /\ hist.prev.exc = "None"
    /\ exists(hist.prev.pre, engine_ini_path)
    /\ exists(hist.prev.pre, backup_path)
    /\ hist.prev.pre[backup_path].lines # hist.prev.pre[engine_ini_path].lines
    /\ fs[engine_ini_path].lines # hist.pre[engine_ini_path].lines
    /\ fs[backup_path].lines = hist.pre[engine_ini_path].lines

\* C6: get_performance_preset(name) raises nothing; for a name of the catalog
\* it returns that entry, for any other name the entry named "balanced".
C6_UnknownPresetIsBalanced ==
    hist.op = "get_performance_preset" =>
        /\ hist.exc = "None"
        /\ \A i \in 1..Len(toml_config.presets) :
               /\ toml_config.presets[i].k = hist.args.preset =>
                      hist.ret = toml_config.presets[i].v
               /\ (toml_config.presets[i].k = "balanced"
                     /\ hist.args.preset \notin Keys(toml_config.presets)) =>
                      hist.ret = toml_config.presets[i].v

\* get_performance_preset was called with a name the catalog does not hold.
C6_Witness ==
    /\ hist.op = "get_performance_preset"
    /\ hist.args.preset \notin Keys(toml_config.presets)
    /\ hist.ret # <<>>

\* Permission bits: the owner write bit (0o200) and all the others
OwnerWrite(mode) == (mode \div 128) % 2 = 1

OtherBits(mode) == IF OwnerWrite(mode) THEN mode - 128 ELSE mode

\* set_read_only(True) and then set_read_only(False) ran on an existing target
ReadOnlyRoundTrip ==
    /\ hist.op = "set_read_only" /\ ~hist.args.read_only
    /\ hist.prev.op = "set_read_only" /\ hist.prev.args.read_only
    /\ exists(hist.prev.pre, engine_ini_path)

\* C7 as stated: set_read_only(True) then set_read_only(False) restores the
\* owner write bit to its original value and leaves every other bit.
C7_RoundTripRestoresMode ==
    ReadOnlyRoundTrip =>
        fs[engine_ini_path].mode = hist.prev.pre[engine_ini_path].mode

\* C7, amended: set_read_only(True) then set_read_only(False) leaves the
\* owner write bit set, which is its original value exactly when the target
\* was writable to begin with, and leaves every other permission bit as it
\* was.
C7_RoundTripLeavesWritable ==
    ReadOnlyRoundTrip =>
        /\ hist.exc = "None" /\ hist.prev.exc = "None"
        /\ OwnerWrite(fs[engine_ini_path].mode)
        /\ OtherBits(fs[engine_ini_path].mode)
             = OtherBits(hist.prev.pre[engine_ini_path].mode)
        /\ OwnerWrite(hist.prev.pre[engine_ini_path].mode) =>
               fs[engine_ini_path].mode = hist.prev.pre[engine_ini_path].mode

\* The round trip ran on a target that was read-only to begin with, and on
\* one with group and other bits set.
C7_Witness ==
    /\ ReadOnlyRoundTrip
    /\ ~OwnerWrite(hist.prev.pre[engine_ini_path].mode)
    /\ OtherBits(hist.prev.pre[engine_ini_path].mode) # 256

\* C8: set_read_only(flag) raises nothing; on an existing target it clears
\* (flag true) or sets (flag false) the owner write bit and changes no other
\* permission bit, no content and no other file; with no target it changes
\* nothing and creates nothing.
C8_SetReadOnlyFrame ==
    hist.op = "set_read_only" =>
        /\ hist.exc = "None"
        /\ DOMAIN fs = DOMAIN hist.pre
        /\ \A p \in DOMAIN fs : p # engine_ini_path => fs[p] = hist.pre[p]
        /\ exists(hist.pre, engine_ini_path) =>
               /\ fs[engine_ini_path].lines = hist.pre[engine_ini_path].lines
               /\ OtherBits(fs[engine_ini_path].mode)
                    = OtherBits(hist.pre[engine_ini_path].mode)
               /\ OwnerWrite(fs[engine_ini_path].mode) = ~hist.args.read_only

\* set_read_only(True) cleared the owner write bit of a target with other
\* bits set, beside an existing backup.
C8_Witness ==
    /\ hist.op = "set_read_only" /\ hist.args.read_only
    /\ exists(hist.pre, engine_ini_path) /\ exists(hist.pre, backup_path)
    /\ OwnerWrite(hist.pre[engine_ini_path].mode)
    /\ ~OwnerWrite(fs[engine_ini_path].mode)
    /\ OtherBits(fs[engine_ini_path].mode) \notin {256, 292}

\* set_read_only ran with no target.
C8_WitnessAbsent ==
    /\ hist.op = "set_read_only" /\ ~exists(hist.pre, engine_ini_path)

(***************************************************************************)
(* Properties of the application (specification SpecApp) and of the value  *)
(* mapper (specification SpecMapper).                                      *)
(***************************************************************************)
\* The commands and handlers that write the target
WritingHandlers == {"create", "custom", "action_save_changes", "save_changes"}

\* A save handler ran to its end: no exception, or the success snack bar
SaveCompleted ==
    \/ hist.op = "action_save_changes" /\ hist.exc = "None"
    \/ hist.op = "save_changes" /\ hist.ret # Snackbar("Error saving configuration")

\* C4: every write of the target made by the CLI commands create and custom
\* and by the save handlers of the TUI and the GUI is preceded by a backup:
\* when a write of an existing target begins, the backup file exists and
\* holds, line for line, what the target holds at that moment.
C4_EveryWriteIsBackedUp ==
    hist.op \in WritingHandlers =>
        \A i \in 1..Len(hist.log) :
            hist.log[i].existed =>
                /\ hist.log[i].backup_exists
                /\ hist.log[i].backup = hist.log[i].target

\* The command custom rewrote an existing target that has no backup at all.
C4_Witness ==
    /\ hist.op = "custom" /\ hist.exc = "None"
    /\ Len(hist.log) = 1
    /\ hist.log[1].existed /\ ~hist.log[1].backup_exists
    /\ fs[engine_ini_path].lines # hist.pre[engine_ini_path].lines
    /\ ~exists(fs, backup_path)

\* A save with Include Engine Tweaks on wrote the target twice, the second
\* time over content the backup does not hold.
C4_WitnessSecondWrite ==
    /\ SaveCompleted
    /\ Len(hist.log) = 2
    /\ hist.log[1].existed /\ hist.log[1].backup = hist.log[1].target
    /\ hist.log[2].backup # hist.log[2].target

\* C9: after a save (action_save_changes or save_changes) that ran to its
\* end, with Include Engine Tweaks on or off and whatever the catalog's
\* tweaks, every (section, key) gather_ui_values produced has on disk the
\* value gathered from the controls.
C9_UserValuesWinOnDisk ==
    SaveCompleted =>
        Entries(Rendered(hist.args.custom_settings)) \subseteq Entries(Document(fs))

\* A save with Include Engine Tweaks on left on disk the tweak's value of a
\* key the controls also supplied, every other gathered key as gathered.
C9_Witness ==
    /\ SaveCompleted
    /\ hist.args.include_tweaks
    /\ \E e \in Entries(Rendered(hist.args.custom_settings)) :
           /\ e \notin Entries(Document(fs))
           /\ <<e[1], e[2], str(Get(Get(get_engine_tweaks(toml_config), e[1]), e[2]))>>
                 \in Entries(Document(fs))

\* The dropdown settings of the round-trip law
RoundTripLabels ==
    {"Anisotropic Filtering", "Depth of Field", "Bloom", "Motion Blur",
     "Lens Flares", "Shadow Quality", "Film Grain"}

\* C10: for each of the dropdown settings Anisotropic Filtering, Depth of
\* Field, Bloom, Motion Blur, Lens Flares, Shadow Quality and Film Grain and
\* every word offered for it, the word converted to its engine string by
\* gather_ui_values and back by the converter of the key is the word again.
C10_DropdownRoundTrip ==
    (conv.stage = "back" /\ conv.label \in RoundTripLabels) =>
        conv.exc = "None" /\ conv.back = conv.value

\* The word Low of Shadow Quality went to "1" and came back as Medium.
C10_Witness ==
    /\ conv.stage = "back" /\ conv.label = "Shadow Quality"
    /\ conv.value = "Low" /\ conv.engine = "1" /\ conv.back = "Medium"

(***************************************************************************)
(* Properties of the converters (specification SpecConverter).             *)
(***************************************************************************)
SixLevelKeys ==
    {"r.DepthOfFieldQuality", "r.BloomQuality", "r.MotionBlurQuality",
     "r.LensFlareQuality"}

\* The engine string spells an integer of at least n
SpellsAtLeast(string, n) == \E m \in IntRange : m >= n /\ ToString(m) = string

\* C11: for the keys with a 6-level table, the conversion of an ordinal
\* string whose integer is 5 or more raises nothing and yields "Ultra"; for
\* r.ShadowQuality an ordinal of 3 or more yields the top label of its
\* 4-level table.
C11_HighOrdinalsClampToTop ==
    conv.stage = "converted" =>
        /\ (conv.key \in SixLevelKeys /\ SpellsAtLeast(conv.engine, 5)) =>
               conv.exc = "None" /\ conv.back = "Ultra"
        /\ (conv.key = "r.ShadowQuality" /\ SpellsAtLeast(conv.engine, 3)) =>
               conv.exc = "None" /\ conv.back = shadow_options[Len(shadow_options)]

\* "99" was converted for a 6-level key.
C11_Witness ==
    /\ conv.stage = "converted" /\ conv.key = "r.BloomQuality"
    /\ conv.engine = "99" /\ conv.back = "Ultra"

\* "9" was converted for r.ShadowQuality.
C11_WitnessShadow ==
    /\ conv.stage = "converted" /\ conv.key = "r.ShadowQuality"
    /\ conv.engine = "9" /\ conv.back = "Ultra"

(***************************************************************************)
(* Properties of gather_ui_values (specification SpecGather).              *)
(***************************************************************************)
\* The value gathered for the control labelled l
Gathered(l) ==
    LET section_key == Get(config_map_of(frontend), l)
    IN  Get(Get(hist.ret, section_key[1]), section_key[2])

\* C12: gather_ui_values of either front end writes the switches Fog and
\* Volumetric Fog as "True" when on and "False" when off, and every other
\* switch with a config key (Chromatic Aberration in the GUI; Chromatic
\* Aberration, Disable Distortion Effects, Film Grain and Grain Quantization
\* in the TUI) as "1" when on and "0" when off.
C12_SwitchSpellings ==
    Returned("gather_ui_values") =>
        /\ MappedSwitches("gui") = {"Fog", "Volumetric Fog", "Chromatic Aberration"}
        /\ MappedSwitches("tui") =
               {"Fog", "Volumetric Fog", "Chromatic Aberration",
                "Disable Distortion Effects", "Film Grain", "Grain Quantization"}
        /\ \A l \in MappedSwitches(frontend) :
               Gathered(l) =
                   IF l \in {"Fog", "Volumetric Fog"}
                   THEN TStr(IF controls[l].on THEN "True" ELSE "False")
                   ELSE TStr(IF controls[l].on THEN "1" ELSE "0")

\* The TUI gathered with Fog off, Volumetric Fog on, Film Grain off and
\* Grain Quantization on.
C12_Witness ==
    /\ Returned("gather_ui_values") /\ frontend = "tui"
    /\ ~controls["Fog"].on /\ controls["Volumetric Fog"].on
    /\ ~controls["Film Grain"].on /\ controls["Grain Quantization"].on
    /\ Gathered("Fog") = TStr("False") /\ Gathered("Grain Quantization") = TStr("1")

\* The GUI gathered with Fog on and Chromatic Aberration off.
C12_WitnessFlet ==
    /\ Returned("gather_ui_values") /\ frontend = "gui"
    /\ controls["Fog"].on /\ ~controls["Chromatic Aberration"].on
    /\ Gathered("Fog") = TStr("True")
    /\ Gathered("Chromatic Aberration") = TStr("0")

(***************************************************************************)
(* Further properties of the store (specification Spec).                   *)
(***************************************************************************)

\* C13: backup_existing_config never raises: whenever the target exists it
\* returns the backup path and leaves the target's content in the backup
\* file, whatever backup was there before and whether or not the owner write
\* bit of the target (and of a backup copied from it) is cleared; with no
\* target it returns nothing.
C13_BackupNeverFails ==
    hist.op = "backup_existing_config" =>
        /\ hist.exc = "None"
        /\ exists(hist.pre, engine_ini_path) =>
               /\ hist.ret = backup_path
               /\ exists(fs, backup_path)
               /\ fs[backup_path].lines = hist.pre[engine_ini_path].lines
        /\ ~exists(hist.pre, engine_ini_path) => hist.ret = <<>>

\* A backup of a read-only target returned and left a read-only backup; the
\* next backup raised PermissionError.
C13_Witness ==
    /\ hist.op = "backup_existing_config" /\ hist.exc = "PermissionError"
    /\ hist.prev.op = "backup_existing_config" /\ hist.prev.exc = "None"
    /\ ~OwnerWrite(hist.prev.pre[engine_ini_path].mode)
    /\ exists(hist.pre, backup_path) /\ ~OwnerWrite(hist.pre[backup_path].mode)
    /\ fs = hist.pre

\* C14: with no target file, read_config, backup_existing_config,
\* set_read_only and show_current_config raise nothing and create or change
\* no file (an earlier backup stays as it is); read_config returns the empty
\* document, backup_existing_config returns nothing, show_current_config
\* reports only that the file does not exist.
C14_AbsentTargetIsNoOp ==
    (/\ hist.op \in {"read_config", "backup_existing_config", "set_read_only",
                     "show_current_config"}
     /\ ~exists(hist.pre, engine_ini_path)) =>
        /\ hist.exc = "None"
        /\ fs = hist.pre
        /\ hist.op \in {"read_config", "backup_existing_config"} => hist.ret = <<>>
        /\ hist.op = "show_current_config" =>
               hist.ret = <<Item("Engine.ini does not exist", <<>>)>>

\* read_config returned the empty document with no target beside an earlier
\* backup, after backup_existing_config had left that backup alone.
C14_Witness ==
    /\ hist.op = "read_config" /\ hist.ret = <<>>
    /\ hist.prev.op = "backup_existing_config"
    /\ ~exists(hist.prev.pre, engine_ini_path)
    /\ exists(hist.prev.pre, backup_path)
    /\ fs = hist.prev.pre

\* C15: merging is associative: for the document a on disk and the overlays
\* b and c of two apply_custom_settings calls in a row that returned, merging
\* c onto the merge of b onto a gives the document that merging (c merged
\* onto b) onto a gives, and the two calls leave on disk what the single
\* call apply_custom_settings(c merged onto b) leaves.
C15_MergeIsAssociative ==
    (Returned("apply_custom_settings")
       /\ hist.prev.op = "apply_custom_settings" /\ hist.prev.exc = "None") =>
        LET a == Document(hist.prev.pre)
            b == hist.prev.args.custom_settings
            c == hist.args.custom_settings
            bc == Merge(Rendered(b), c)
            once == apply_custom_settings(World(hist.prev.pre, toml_config),
                                          Typed(bc.config))
        IN  /\ bc.exc = "None"
            /\ Merge(Merge(a, b).config, c) = Merge(a, Typed(bc.config))
            /\ once.exc = "None"
            /\ once.fs = fs
            /\ Document(fs) = Merge(a, Typed(bc.config)).config

\* Two overlays were applied in a row to a target with entries of its own:
\* the second overrides a key of the first with another value, and each has
\* a key the other has not.
C15_Witness ==
    /\ Returned("apply_custom_settings")
    /\ hist.prev.op = "apply_custom_settings" /\ hist.prev.exc = "None"
    /\ Entries(Document(hist.prev.pre)) # {}
    /\ LET b == Rendered(hist.prev.args.custom_settings)
           c == Rendered(hist.args.custom_settings)
       IN  /\ \E e \in Entries(b) : Defines(c, e[1], e[2]) /\ e \notin Entries(c)
           /\ \E e \in Entries(b) : ~Defines(c, e[1], e[2])
           /\ \E e \in Entries(c) : ~Defines(b, e[1], e[2])

(***************************************************************************)
(* Properties of writes that may stop part-way (specification SpecWrite).  *)
(***************************************************************************)
\* The directory the last write leaves when it runs to its end
CompleteWrite ==
    IF hist.op = "create_engine_ini"
    THEN create_engine_ini(World(hist.pre, toml_config), hist.args.preset,
                           hist.args.include_tweaks)
    ELSE apply_custom_settings(World(hist.pre, toml_config),
                               hist.args.custom_settings)

\* C16: a write of the target by create_engine_ini or apply_custom_settings,
\* whether it runs to its end, fails or is stopped part-way, leaves at the
\* target path either what was there before (nothing, if there was no
\* target) or the complete new content, never a part of it.
C16_NoHalfWrittenTarget ==
    hist.op \in {"create_engine_ini", "apply_custom_settings"} =>
        \/ fs = hist.pre
        \/ /\ CompleteWrite.exc = "None"
           /\ fs[engine_ini_path].lines = CompleteWrite.fs[engine_ini_path].lines

\* apply_custom_settings stopped after some lines: the target holds a proper,
\* non-empty part of the new content and no longer what it held before.
C16_Witness ==
    /\ hist.op = "apply_custom_settings" /\ hist.exc = "OSError"
    /\ exists(hist.pre, engine_ini_path)
    /\ Len(hist.pre[engine_ini_path].lines) > 0
    /\ Len(fs[engine_ini_path].lines) > 0
    /\ Len(fs[engine_ini_path].lines) < Len(CompleteWrite.fs[engine_ini_path].lines)
    /\ fs[engine_ini_path].lines # hist.pre[engine_ini_path].lines

\* create_engine_ini stopped right after open(path, 'w'): the target that
\* held a document is empty.
C16_WitnessTruncated ==
    /\ hist.op = "create_engine_ini" /\ hist.exc = "OSError"
    /\ exists(hist.pre, engine_ini_path)
    /\ Len(hist.pre[engine_ini_path].lines) > 0
    /\ fs[engine_ini_path].lines = <<>>

(***************************************************************************)
(* Properties of the store on a malformed target (specification Spec).     *)
(***************************************************************************)
\* The exceptions of configparser for a file that is not in the format
FormatErrors ==
    {"MissingSectionHeaderError", "ParsingError", "DuplicateSectionError",
     "DuplicateOptionError"}

\* C17: on an existing target that cannot be parsed, apply_custom_settings
\* raises a format error and leaves the target (and everything else in the
\* directory) exactly as it was, and read_config raises a format error
\* instead of returning a document.
C17_MalformedTargetIsLeftAlone ==
    (/\ hist.op \in {"apply_custom_settings", "read_config"}
     /\ exists(hist.pre, engine_ini_path)
     /\ ~Parses(hist.pre)) =>
        /\ hist.exc \in FormatErrors
        /\ fs = hist.pre
        /\ Len(hist.log) = 0

\* apply_custom_settings raised ParsingError on a writable target whose last
\* line is neither a section header nor an option, and the file is as before.
C17_Witness ==
    /\ hist.op = "apply_custom_settings" /\ hist.exc = "ParsingError"
    /\ exists(hist.pre, engine_ini_path)
    /\ OwnerWrite(hist.pre[engine_ini_path].mode)
    /\ \E i \in 1..Len(hist.pre[engine_ini_path].lines) :
           hist.pre[engine_ini_path].lines[i] = BadLine("garbage")
    /\ fs[engine_ini_path] = hist.pre[engine_ini_path]

\* read_config raised on the same kind of target.
C17_WitnessRead ==
    /\ hist.op = "read_config" /\ hist.exc = "ParsingError"
    /\ ~Parses(hist.pre)

(***************************************************************************)
(* Conversion failures (specification SpecConverter).                      *)
(***************************************************************************)
\* The keys whose engine value must be numeric: the quality ordinals and the
\* scale factors
NumericKeys ==
    SixLevelKeys \cup {"r.ShadowQuality", "r.ViewDistanceScale", "r.Tonemapper.Sharpen"}

\* The engine strings that spell no number
NonNumeric == {"abc", "True", "false"}

\* A piece of what is shown is the text
Shows(text) == \E i \in 1..Len(conv.shown) : conv.shown[i] = text

\* C18: when the engine value of a key that must be numeric is a string that
\* spells no number, the conversion of apply_preset / apply_preset_to_ui
\* fails, and what the failure shows identifies the setting key and the raw
\* value.
C18_ConversionFailureNamesKey ==
    (conv.stage = "converted" /\ conv.key \in NumericKeys
       /\ conv.engine \in NonNumeric) =>
        /\ conv.exc # "None"
        /\ Shows(conv.key) \/ Shows(conv.label)
        /\ Shows(conv.engine) \/ Shows(repr(conv.engine))

\* The GUI converted "abc" for r.BloomQuality: the snack bar shows the text
\* of the ValueError, which quotes the value and names no key.
C18_Witness ==
    /\ conv.stage = "converted" /\ frontend = "gui"
    /\ conv.key = "r.BloomQuality" /\ conv.engine = "abc"
    /\ conv.exc = "ValueError"
    /\ conv.shown = <<"Error applying preset: ",
                      "invalid literal for int() with base 10: ", "'abc'">>

\* The TUI converted "abc" for r.ViewDistanceScale: nothing failed and the
\* text goes to the control as it is.
C18_WitnessPassedThrough ==
    /\ conv.stage = "converted" /\ frontend = "tui"
    /\ conv.key = "r.ViewDistanceScale" /\ conv.engine = "abc"
    /\ conv.exc = "None" /\ conv.back = "abc"

(***************************************************************************)
(* The catalog (specification SpecApp).                                    *)
(***************************************************************************)

\* C19: the catalog of presets and engine tweaks loaded at construction is
\* never changed: no command of the CLI (create_engine_ini,
\* apply_custom_settings), no preset button (get_performance_preset and the
\* converters) and no save (get_engine_tweaks, apply_custom_settings called
\* with the tweaks fragment itself) leaves a preset or the tweaks other than
\* they were.
C19_CatalogIsNeverMutated == [][toml_config' = toml_config]_vars

\* A save with Include Engine Tweaks on ran to its end right after a preset
\* button, and wrote the tweaks of the catalog to the target.
C19_Witness ==
    /\ SaveCompleted /\ hist.args.include_tweaks
    /\ hist.prev.op \in {"apply_preset_to_ui", "apply_preset"}
    /\ toml_config \in Catalogs
    /\ Entries(Rendered(get_engine_tweaks(toml_config)))
          \subseteq Entries(Document(fs))

(***************************************************************************)
(* No document is kept between calls (specification Spec).                 *)
(***************************************************************************)

\* C20: whatever operations ran before, through this or any other
\* ClairObscurConfig on the same path, apply_custom_settings(O) that returns
\* leaves the merge of O onto the document that is on disk when it is
\* called, and read_config returns the document that is on disk when it is
\* called and changes nothing.
C20_EveryCallReadsTheDisk ==
    /\ Returned("apply_custom_settings") =>
           Document(fs) = Merge(Document(hist.pre), hist.args.custom_settings).config
    /\ Returned("read_config") =>
           hist.ret = Document(hist.pre) /\ fs = hist.pre

\* apply_custom_settings ran after a create_engine_ini that replaced the
\* document on disk: it merged onto the new document, not onto the one that
\* was there before the earlier call.
C20_Witness ==
    /\ Returned("apply_custom_settings")
    /\ hist.prev.op = "create_engine_ini" /\ hist.prev.exc = "None"
    /\ Document(hist.prev.pre) # <<>>
    /\ Document(hist.prev.pre) # Document(hist.pre)
    /\ Document(fs) # Merge(Document(hist.prev.pre), hist.args.custom_settings).config

\* read_config ran after an apply_custom_settings that changed the document.
C20_WitnessRead ==
    /\ Returned("read_config")
    /\ hist.prev.op = "apply_custom_settings" /\ hist.prev.exc = "None"
    /\ Document(hist.prev.pre) # Document(hist.pre)
    /\ hist.ret = Document(hist.pre)

(***************************************************************************)
(* The case of keys (specification Spec).                                  *)
(***************************************************************************)
\* Two spellings of one key that differ in the case of letters only
DifferInCaseOnly(key, other) == key # other /\ lower(key) = lower(other)

\* The document the last write (create_engine_ini or apply_custom_settings)
\* was given: the preset and the tweaks, or the overlay
WrittenBy(h) ==
    IF h.op = "create_engine_ini"
    THEN Entries(Rendered(get_performance_preset(toml_config, h.args.preset)))
         \cup (IF h.args.include_tweaks
               THEN Entries(Rendered(get_engine_tweaks(toml_config))) ELSE {})
    ELSE Entries(Rendered(h.args.custom_settings))

\* C21: keys are case-sensitive on read and on write: apply_custom_settings
\* with a key that differs only in case from a key of the same section on
\* disk adds an entry and leaves the key on disk with its value, and every
\* key create_engine_ini or apply_custom_settings wrote is returned by a
\* following read_config in the spelling it was written with.
C21_KeysAreCaseSensitive ==
    /\ Returned("apply_custom_settings") =>
           \A e \in Entries(Document(hist.pre)) :
               \A o \in Entries(Rendered(hist.args.custom_settings)) :
                   (o[1] = e[1] /\ DifferInCaseOnly(o[2], e[2])) =>
                       /\ e \in Entries(Document(fs))
                       /\ o \in Entries(Document(fs))
    /\ (Returned("read_config")
          /\ hist.prev.op \in {"create_engine_ini", "apply_custom_settings"}
          /\ hist.prev.exc = "None") =>
           \A o \in WrittenBy(hist.prev) : Defines(hist.ret, o[1], o[2])

\* r.bloomquality was applied to a target holding r.BloomQuality, and both
\* are on disk with their own values.
C21_Witness ==
    /\ Returned("apply_custom_settings")
    /\ <<"SystemSettings", "r.BloomQuality", "1">> \in Entries(Document(hist.pre))
    /\ <<"SystemSettings", "r.BloomQuality", "1">> \in Entries(Document(fs))
    /\ <<"SystemSettings", "r.bloomquality", "0">> \in Entries(Document(fs))

\* read_config returned r.BloomQuality and r.bloomquality as two keys after
\* the second was applied.
C21_WitnessRead ==
    /\ Returned("read_config")
    /\ hist.prev.op = "apply_custom_settings" /\ hist.prev.exc = "None"
    /\ Defines(hist.ret, "SystemSettings", "r.BloomQuality")
    /\ Defines(hist.ret, "SystemSettings", "r.bloomquality")

(***************************************************************************)
(* Ordinals below the table (specification SpecConverter).                 *)
(***************************************************************************)
\* The engine string spells an integer below n
SpellsBelow(string, n) == \E m \in IntRange : m < n /\ ToString(m) = string

\* C22: the conversion of a quality ordinal clamps the index into the
\* table's range for every integer: an ordinal string below the range
\* ("-1", "-7") converts, without an error, to the lowest label of the
\* key's table.
C22_LowOrdinalsClampToLowest ==
    conv.stage = "converted" =>
        /\ (conv.key \in SixLevelKeys /\ SpellsBelow(conv.engine, 0)) =>
               conv.exc = "None" /\ conv.back = quality_options[1]
        /\ (conv.key = "r.ShadowQuality" /\ SpellsBelow(conv.engine, 0)) =>
               conv.exc = "None" /\ conv.back = shadow_options[1]

\* "-1" was converted for a 6-level key and gave the top label.
C22_Witness ==
    /\ conv.stage = "converted" /\ conv.key = "r.BloomQuality"
    /\ conv.engine = "-1" /\ conv.exc = "None" /\ conv.back = "Ultra"

\* "-7" was converted for a 6-level key and raised IndexError.
C22_WitnessIndexError ==
    /\ conv.stage = "converted" /\ conv.key = "r.BloomQuality"
    /\ conv.engine = "-7" /\ conv.exc = "IndexError"

(***************************************************************************)
(* Controls without a config key (specification SpecApp).                  *)
(***************************************************************************)
\* The (section, key) pairs a document defines
Pairs(document) == {<<e[1], e[2]>> : e \in Entries(document)}

\* The (section, key) pairs of a front end's config_map
MappedPairs(fe) ==
    {config_map_of(fe)[i].v : i \in DOMAIN config_map_of(fe)}

SaveHandlers == {"action_save_changes", "save_changes"}

\* C23: gather_ui_values emits a (section, key) only for a control whose
\* label is in its config_map: the switches Include Engine Tweaks and Set
\* Config Read-Only contribute no key, and a save writes to the target no
\* key other than the keys of the config_map and, with Include Engine
\* Tweaks on, of the tweaks.
C23_OnlyMappedControlsEmit ==
    /\ hist.op \in SaveHandlers =>
           Pairs(Rendered(hist.args.custom_settings)) \subseteq MappedPairs(frontend)
    /\ SaveCompleted =>
           Pairs(Document(fs)) \ Pairs(Document(hist.pre)) \subseteq
               MappedPairs(frontend)
               \cup (IF hist.args.include_tweaks
                     THEN Pairs(Rendered(get_engine_tweaks(toml_config)))
                     ELSE {})

\* A save ran to its end with Set Config Read-Only on and Include Engine
\* Tweaks off and added keys to the target.
C23_Witness ==
    /\ SaveCompleted
    /\ controls["Set Config Read-Only"].on
    /\ ~controls["Include Engine Tweaks"].on
    /\ Pairs(Rendered(hist.args.custom_settings)) # {}
    /\ Pairs(Document(fs)) \ Pairs(Document(hist.pre)) # {}

(***************************************************************************)
(* Values as literal strings (specification Spec).                         *)
(***************************************************************************)
\* A target apply_custom_settings can read and rewrite
Rewritable(f) ==
    exists(f, engine_ini_path) =>
        /\ Parses(f)
        /\ Readable(f, engine_ini_path)
        /\ Writable(f, engine_ini_path)

\* C24: values are literal strings, without interpolation or escaping: for
\* every string value, one holding a percent sign included,
\* apply_custom_settings on a target it can read and rewrite raises nothing
\* and leaves on disk, and a following read_config returns, exactly that
\* value for the (section, key).
C24_ValuesAreLiteral ==
    /\ (hist.op = "apply_custom_settings" /\ Rewritable(hist.pre)) =>
           /\ hist.exc = "None"
           /\ Entries(Rendered(hist.args.custom_settings))
                  \subseteq Entries(Document(fs))
    /\ (Returned("read_config") /\ hist.prev.op = "apply_custom_settings"
          /\ Rewritable(hist.prev.pre)) =>
           Entries(Rendered(hist.prev.args.custom_settings))
               \subseteq Entries(hist.ret)

\* apply_custom_settings of {X: {a: "50%"}} with no target raised
\* ValueError and wrote no file.
C24_Witness ==
    /\ hist.op = "apply_custom_settings" /\ hist.exc = "ValueError"
    /\ ~exists(hist.pre, engine_ini_path)
    /\ <<"X", "a", "50%">> \in Entries(Rendered(hist.args.custom_settings))
    /\ ~exists(fs, engine_ini_path)

\* The same call on a well-formed writable target raised and left it as it
\* was; the read_config that followed returned no value for (X, a).
C24_WitnessRead ==
    /\ Returned("read_config")
    /\ hist.prev.op = "apply_custom_settings" /\ hist.prev.exc = "ValueError"
    /\ <<"X", "a", "50%">> \in Entries(Rendered(hist.prev.args.custom_settings))
    /\ <<"X", "a", "50%">> \notin Entries(hist.ret)

(***************************************************************************)
(* A preset button, then a save (specification SpecApp).                   *)
(***************************************************************************)
\* A save ran to its end right after a preset button applied a preset
SavedAfterPreset ==
    /\ SaveCompleted
    /\ hist.prev.op \in {"apply_preset_to_ui", "apply_preset"}
    /\ hist.prev.exc = "None"
    /\ hist.prev.args.preset \in {"low", "balanced", "ultra"}

\* The document of the preset whose button was pressed
SelectedPreset ==
    Rendered(get_performance_preset(toml_config, hist.prev.args.preset))

\* The pairs the tweaks of this save supply
TweakPairs ==
    IF hist.args.include_tweaks
    THEN Pairs(Rendered(get_engine_tweaks(toml_config))) ELSE {}

\* The pairs of the controls the user edits by hand between the two
UserEdited == {<<"SystemSettings", "r.BloomQuality">>}

\* C25: when the user selects a named preset and then saves, the persisted
\* document combines the preset, the tweaks and the user overrides: every
\* (section, key) of the preset is on disk after the save, with the
\* preset's value unless the tweaks or a control the user changed supplies
\* the same (section, key).
C25_SavePersistsPreset ==
    SavedAfterPreset =>
        \A e \in Entries(SelectedPreset) :
            /\ Defines(Document(fs), e[1], e[2])
            /\ \/ e \in Entries(Document(fs))
               \/ <<e[1], e[2]>> \in TweakPairs
               \/ <<e[1], e[2]>> \in UserEdited

\* The ultra preset was selected and saved, and its renderer setting
\* r.DefaultFeature.Bloom is not in the target.
C25_Witness ==
    /\ SavedAfterPreset
    /\ hist.prev.args.preset = "ultra"
    /\ Defines(SelectedPreset, "/Script/Engine.RendererSettings",
               "r.DefaultFeature.Bloom")
    /\ ~Defines(Document(fs), "/Script/Engine.RendererSettings",
                "r.DefaultFeature.Bloom")

\* A key of the preset is on disk with a value that is neither the
\* preset's nor the tweaks' nor one the user chose.
C25_WitnessValue ==
    /\ SavedAfterPreset
    /\ \E e \in Entries(SelectedPreset) :
           /\ Defines(Document(fs), e[1], e[2])
           /\ e \notin Entries(Document(fs))
           /\ <<e[1], e[2]>> \notin TweakPairs \cup UserEdited

(***************************************************************************)
(* Saving after a read-only save (specification SpecApp).                  *)
(***************************************************************************)
\* The save handler ran with Set Config Read-Only on, and ran again with it
\* off
SavedAgainWritable ==
    /\ hist.op \in SaveHandlers
    /\ hist.prev.op = hist.op
    /\ hist.prev.args.read_only
    /\ ~hist.args.read_only

\* C26: a save is possible again after a read-only save: in a state reached
\* by a save handler run with Set Config Read-Only on, a run of the same
\* handler with Set Config Read-Only off completes without error, writes
\* the gathered settings to the target (the tweaks aside) and leaves the
\* owner write bit of the target set.
C26_SaveAgainAfterReadOnly ==
    SavedAgainWritable =>
        /\ SaveCompleted
        /\ \A e \in Entries(Rendered(hist.args.custom_settings)) :
               e \in Entries(Document(fs)) \/ <<e[1], e[2]>> \in TweakPairs
        /\ exists(fs, engine_ini_path)
        /\ OwnerWrite(fs[engine_ini_path].mode)

\* The first save created the target and made it read-only; the second,
\* with the switch off, failed and left the target read-only with its
\* content as the first save wrote it.
C26_Witness ==
    /\ SavedAgainWritable
    /\ ~exists(hist.prev.pre, engine_ini_path)
    /\ exists(hist.pre, engine_ini_path)
    /\ ~OwnerWrite(hist.pre[engine_ini_path].mode)
    /\ ~SaveCompleted
    /\ fs[engine_ini_path] = hist.pre[engine_ini_path]
    /\ Entries(Rendered(hist.args.custom_settings)) \ Entries(Document(fs)) # {}

(***************************************************************************)
(* The write bit after a save and after create (specification SpecApp).    *)
(***************************************************************************)
\* The permission bits the write of a handler leaves on the target: those
\* the target had, or those of a newly created file
ModeAsWritten ==
    IF exists(hist.pre, engine_ini_path)
    THEN hist.pre[engine_ini_path].mode ELSE CreateMode

\* C27: after a save handler run that completes without error the target
\* exists and its owner write bit is cleared exactly when Set Config
\* Read-Only was on for the run; the command create leaves the bit cleared
\* when --read-only is given and otherwise leaves the permission bits as
\* the write produced them.
C27_WriteBitFollowsSwitch ==
    /\ SaveCompleted =>
           /\ exists(fs, engine_ini_path)
           /\ OwnerWrite(fs[engine_ini_path].mode) <=> ~hist.args.read_only
    /\ Returned("create") =>
           /\ exists(fs, engine_ini_path)
           /\ hist.args.read_only => ~OwnerWrite(fs[engine_ini_path].mode)
           /\ ~hist.args.read_only => fs[engine_ini_path].mode = ModeAsWritten

\* A save with Set Config Read-Only on completed and the target is
\* read-only.
C27_Witness ==
    /\ SaveCompleted /\ hist.args.read_only
    /\ exists(fs, engine_ini_path) /\ ~OwnerWrite(fs[engine_ini_path].mode)

\* A save with the switch off completed and the target is writable.
C27_WitnessOff ==
    /\ SaveCompleted /\ ~hist.args.read_only
    /\ exists(fs, engine_ini_path) /\ OwnerWrite(fs[engine_ini_path].mode)

\* create --read-only completed on an existing target and left it
\* read-only.
C27_WitnessCreate ==
    /\ Returned("create")
    /\ hist.args.read_only /\ exists(hist.pre, engine_ini_path)
    /\ ~OwnerWrite(fs[engine_ini_path].mode)

\* create without --read-only left the bits of the file it created.
C27_WitnessCreateWritable ==
    /\ Returned("create")
    /\ ~hist.args.read_only /\ ~exists(hist.pre, engine_ini_path)
    /\ fs[engine_ini_path].mode = CreateMode

(***************************************************************************)
(* A save with the tweaks suppressed (specification SpecApp).              *)
(***************************************************************************)
\* The pairs the tweaks fragment defines and gather_ui_values does not
TweakOnly ==
    Pairs(Rendered(get_engine_tweaks(toml_config)))
        \ Pairs(Rendered(hist.args.custom_settings))

\* A save ran to its end with Include Engine Tweaks off
SavedWithoutTweaks == SaveCompleted /\ ~hist.args.include_tweaks

\* C28 as stated: after a save handler run with Include Engine Tweaks off,
\* no (section, key) defined only by the tweaks fragment is in the target,
\* even when an earlier save or create wrote the tweaks.
C28_NoTweakOnlyKeyOnDisk ==
    SavedWithoutTweaks => TweakOnly \cap Pairs(Document(fs)) = {}

\* C28 amended: a save handler run with Include Engine Tweaks off adds no
\* (section, key) defined only by the tweaks fragment: such a pair is in
\* the target after the run only if it was there before, with the value it
\* had.
C28_NoTweakOnlyKeyAdded ==
    SavedWithoutTweaks =>
        \A e \in Entries(Document(fs)) :
            <<e[1], e[2]>> \in TweakOnly => e \in Entries(Document(hist.pre))

\* A save with the tweaks on was followed by a save with the tweaks off,
\* and a tweak-only key the first wrote is still in the target.
C28_Witness ==
    /\ SavedWithoutTweaks
    /\ hist.prev.op \in SaveHandlers /\ hist.prev.args.include_tweaks
    /\ TweakOnly \cap Pairs(Document(hist.prev.pre)) = {}
    /\ TweakOnly \cap Pairs(Document(fs)) # {}

(***************************************************************************)
(* The backup file (specification Spec).                                   *)
(***************************************************************************)
\* The methods other than backup_existing_config that touch the directory
NonBackupMethods ==
    {"create_engine_ini", "apply_custom_settings", "set_read_only",
     "read_config", "show_current_config"}

\* The backup file of a file system, or <<>> when there is none
BackupFile(f) == IF exists(f, backup_path) THEN f[backup_path] ELSE <<>>

\* C30: only backup_existing_config changes the backup file:
\* create_engine_ini, apply_custom_settings, set_read_only, read_config and
\* show_current_config, returning or raising, leave its existence, content
\* and permission bits as they were, so that after such a call the backup
\* still holds the target's content as of the backup_existing_config call
\* that last copied it.
C30_OnlyBackupChangesBackup ==
    hist.op \in NonBackupMethods =>
        /\ BackupFile(fs) = BackupFile(hist.pre)
        /\ (/\ hist.prev.op = "backup_existing_config"
            /\ hist.prev.exc = "None"
            /\ exists(hist.prev.pre, engine_ini_path)) =>
               /\ exists(fs, backup_path)
               /\ fs[backup_path].lines = hist.prev.pre[engine_ini_path].lines

\* set_read_only(True) changed the bits of the target after a backup, and
\* the backup has the content and the bits the backup gave it.
C30_Witness ==
    /\ Returned("set_read_only") /\ hist.args.read_only
    /\ hist.prev.op = "backup_existing_config" /\ hist.prev.exc = "None"
    /\ exists(hist.prev.pre, engine_ini_path)
    /\ fs[engine_ini_path].mode # hist.pre[engine_ini_path].mode
    /\ fs[backup_path] = hist.pre[backup_path]
    /\ OwnerWrite(fs[backup_path].mode)

\* A write changed the target after a backup and the backup holds the
\* content of before.
C30_WitnessWrite ==
    /\ hist.op \in {"create_engine_ini", "apply_custom_settings"}
    /\ hist.exc = "None"
    /\ hist.prev.op = "backup_existing_config" /\ hist.prev.exc = "None"
    /\ exists(hist.prev.pre, engine_ini_path)
    /\ fs[engine_ini_path].lines # hist.pre[engine_ini_path].lines
    /\ fs[backup_path] = hist.pre[backup_path]

====
